---- MODULE Spec2Model ----
(***************************************************************************)
(* EduTrack prediction-and-risk engine (src/backend.py).                   *)
(*                                                                         *)
(* Numbers.  Risk scores and probabilities are Python floats in the        *)
(* source.  Here they are fixed-point integers in thousandths: 0.20 is     *)
(* 200, the level thresholds 0.4 and 0.7 are 400 and 700, the clamp        *)
(* bounds 0.0 and 1.0 are 0 and 1000.  Probabilities are drawn from even   *)
(* thousandths so that the product with 0.5 is exact.  Binary rounding of  *)
(* the float sum (at most a few ulp) is not represented.                   *)
(*                                                                         *)
(* Metrics.  Every metric is compared only against integer literals, so a  *)
(* float metric x is represented by floor(x): x < 16 iff floor(x) < 16.    *)
(*                                                                         *)
(* Strings.  Tips, directives and levels are the literal strings of the    *)
(* source.  The result of " | ".join(recs) is the sequence of its tokens   *)
(* (directive, separator, directive, ...); no directive contains the       *)
(* separator, so the tokens determine the joined string and conversely.    *)
(***************************************************************************)
EXTENDS Integers, Sequences, FiniteSets, TLC

VARIABLES
    metrics,        \* the nine-field metric vector the calls are made with
    prob_map,       \* the prob_map argument: NoMap (None) or a dict label -> probability
    risk_result,    \* NotCalled, or the tuple calculate_risk returned
    recommendation  \* NotCalled, or the string generate_recommendation returned

riskVars == <<metrics, prob_map, risk_result, recommendation>>

\* The classifier singleton of backend.py, the file at MODEL_PATH and the
\* threads of one server process that call predict_grade.
VARIABLES
    proc_up,        \* TRUE while the server process runs
    artifact,       \* the file at MODEL_PATH: absent, partly written, or a pickled object
    writers,        \* the threads that are inside joblib.dump
    MODEL,          \* the module global _MODEL
    CLASSES,        \* the module global _CLASSES
    pc,             \* per thread: the source line it executes next, or "idle"
    arg,            \* per thread: the metric vector of its predict_grade call
    local_model,    \* per thread: the local `model` of _ensure_model
    ret,            \* per thread: what its last predict_grade call returned or raised
    \* history, not read by the program:
    late,           \* per thread: its call began after an _ensure_model call had completed
    init_done,      \* an _ensure_model call completed without raising in this lifetime
    started_with_artifact,  \* the artifact existed when this lifetime began
    n_train,        \* model.fit executions in this lifetime (counted up to CountCap)
    n_load,         \* joblib.load calls that returned in this lifetime (up to CountCap)
    n_write,        \* joblib.dump calls that completed in this lifetime (up to CountCap)
    first_result,   \* per metric vector: the first result predict_grade returned in this lifetime
    path_ok         \* environment: MODEL_PATH can be read and written

modelVars == <<proc_up, artifact, writers, MODEL, CLASSES, pc, arg, local_model,
               ret, late, init_done, started_with_artifact, n_train, n_load,
               n_write, first_result, path_ok>>

\* The SQLite database of database.py and the connections that work on it.
\* Each call of a database function opens a connection of its own (get_conn).
VARIABLES
    teachers,        \* rows of table teachers: [id, email]
    students,        \* rows of table students: [id, class_id, roll_number]
    student_records, \* rows of table student_records: [id, student_id, subject_id, fields, created_at]
    seq,             \* per table: the last AUTOINCREMENT id handed out
    db_pc,           \* per caller: the source line it executes next, or "idle"
    db_frame,        \* per caller: the arguments and locals of its call
    db_ret,          \* per caller: what its last call returned
    \* history, not read by the program:
    overlapped,      \* an add_record call began while another was under way
    first_id,        \* per (student, subject): the id the first add_record returned, 0 if none
    last_save        \* per (student, subject): the fields of the add_record that completed last

dbVars == <<teachers, students, student_records, seq, db_pc, db_frame, db_ret,
            overlapped, first_id, last_save>>

\* One sample of _generate_synthetic_dataset.
VARIABLES
    raw_score,       \* score + noise of the sample, before np.clip
    sample_score,    \* NotCalled, or the clipped score
    labels           \* NotCalled, or the sample's entry of the labels array

labelVars == <<raw_score, sample_score, labels>>

\* The rest of the database, the clock, and the student dashboard.
VARIABLES
    classes_table,   \* rows of table classes: [id]
    subjects,        \* rows of table subjects: [id, class_id]
    now,             \* CURRENT_TIMESTAMP, in seconds
    records,         \* NotCalled, or the list page_student_dashboard got
    latest_record    \* NotCalled, or the record the dashboard shows as latest

schoolVars == <<classes_table, subjects, now, records, latest_record>>

moreVars == <<labelVars, schoolVars>>

vars == <<riskVars, modelVars, dbVars, moreVars>>

----------------------------------------------------------------------------
(* Inputs                                                                  *)

\* Largest count of projects / certifications / internships in the product
\* of inputs (the source accepts any non-negative integer).
MaxCount == 1

Labels == {"A", "B", "C", "D"}

\* prob_map is None, or a dict: Dict(d) with d a function label -> probability.
NoMap == [present |-> FALSE]
Dict(d) == [present |-> TRUE, dict |-> d]

\* No call made yet / the value a call returned.
NotCalled == [called |-> FALSE]
Returned(v) == [called |-> TRUE, value |-> v]

\* Values on both sides of every threshold either rule set compares against.
AttendanceValues == {74, 75}
MarksValues == {59, 60, 69, 70}
MstValues == {15, 16}
StudyHoursValues == {7, 8, 9, 10}
AssignmentsValues == {59, 60, 69, 70}
ExtracurricularsValues == {1, 2}
CountValues == 0..MaxCount

Vector(a, mk, ms, sh, asg, ex, pr, ce, it) ==
    [attendance |-> a, marks |-> mk, mst_marks |-> ms, study_hours |-> sh,
     assignments |-> asg, extracurriculars |-> ex, projects |-> pr,
     certifications |-> ce, internships |-> it]

\* The three scenario vectors of the specification's section 8.
Scenario1 == Vector(90, 85, 30, 15, 90, 5, 2, 1, 1)
Scenario2 == Vector(50, 40, 5, 2, 30, 0, 0, 0, 0)
Scenario3 == Vector(75, 60, 16, 8, 60, 2, 1, 1, 1)

MetricVectors ==
    [attendance : AttendanceValues, marks : MarksValues, mst_marks : MstValues,
     study_hours : StudyHoursValues, assignments : AssignmentsValues,
     extracurriculars : ExtracurricularsValues, projects : CountValues,
     certifications : CountValues, internships : CountValues]
    \cup {Scenario1, Scenario2, Scenario3}

\* Probabilities in thousandths.
ProbValues == {0, 400, 600, 1000}

RECURSIVE SumOver(_, _)
SumOver(f, S) ==
    IF S = {} THEN 0
    ELSE LET k == CHOOSE x \in S : TRUE IN f[k] + SumOver(f, S \ {k})

\* Distributions a four-class classifier can return: all four keys, sum 1.0.
ClassifierMaps == {pm \in [Labels -> ProbValues] : SumOver(pm, Labels) = 1000}

EmptyMap == [l \in {} |-> 0]

\* Dicts a caller can pass that are no distribution: missing keys, sum # 1.0.
PartialMaps ==
    {[l \in {"D"} |-> 390], [l \in {"D"} |-> 690],
     [l \in {"C", "D"} |-> 1000], [l \in {"A", "B"} |-> 400]}

ProbMaps == {NoMap} \cup {Dict(d) : d \in {EmptyMap} \cup ClassifierMaps \cup PartialMaps}

----------------------------------------------------------------------------
(* calculate_risk                                                          *)

\* prob_map.get(label, 0.0)
Get(pm, label) == IF label \in DOMAIN pm.dict THEN pm.dict[label] ELSE 0

\* `if prob_map:` -- None and the empty dict are both falsy.
Truthy(pm) == pm.present /\ DOMAIN pm.dict # {}

\* Variant: P(C) weighs 1.0 like P(D).
ProbabilityTerm_FullWeightC(pm) ==
    IF Truthy(pm) THEN Get(pm, "D") * 1 + Get(pm, "C") * 1 ELSE 0

\* risk += P(D) * 1.0 ; risk += P(C) * 0.5
ProbabilityTerm(pm) ==
    IF Truthy(pm) THEN Get(pm, "D") * 1 + (Get(pm, "C") * 5) \div 10 ELSE 0

PositiveTip == "Great job! Maintain consistency to keep your performance high."

\* Variant: the comparisons are <= instead of <.
RiskRules_Inclusive(m) == <<
    [fires |-> m.attendance <= 75, weight |-> 200,
     tip |-> "Improve attendance to at least 85% for better outcomes."],
    [fires |-> m.marks <= 60, weight |-> 250,
     tip |-> "Focus on core subjects to raise marks above 70%."],
    [fires |-> m.mst_marks <= 16, weight |-> 200,
     tip |-> "MST performance is low. Schedule revision sessions weekly."],
    [fires |-> m.study_hours <= 8, weight |-> 100,
     tip |-> "Increase study hours to at least 12-15 hours per week."],
    [fires |-> m.assignments <= 60, weight |-> 150,
     tip |-> "Complete and revise assignments to boost score."],
    [fires |-> m.extracurriculars <= 2, weight |-> 50,
     tip |-> "Engage in extracurricular activities for balance."],
    [fires |-> m.projects = 0, weight |-> 100,
     tip |-> "Complete project work to enhance practical skills."],
    [fires |-> m.certifications = 0, weight |-> 80,
     tip |-> "Earn certifications to boost your profile."],
    [fires |-> m.internships = 0, weight |-> 70,
     tip |-> "Consider internship opportunities for industry experience."] >>

\* Variant: the marks rule adds 0.20 instead of 0.25.
RiskRules_MarksWeight(m) == <<
    [fires |-> m.attendance < 75, weight |-> 200,
     tip |-> "Improve attendance to at least 85% for better outcomes."],
    [fires |-> m.marks < 60, weight |-> 200,
     tip |-> "Focus on core subjects to raise marks above 70%."],
    [fires |-> m.mst_marks < 16, weight |-> 200,
     tip |-> "MST performance is low. Schedule revision sessions weekly."],
    [fires |-> m.study_hours < 8, weight |-> 100,
     tip |-> "Increase study hours to at least 12-15 hours per week."],
    [fires |-> m.assignments < 60, weight |-> 150,
     tip |-> "Complete and revise assignments to boost score."],
    [fires |-> m.extracurriculars < 2, weight |-> 50,
     tip |-> "Engage in extracurricular activities for balance."],
    [fires |-> m.projects = 0, weight |-> 100,
     tip |-> "Complete project work to enhance practical skills."],
    [fires |-> m.certifications = 0, weight |-> 80,
     tip |-> "Earn certifications to boost your profile."],
    [fires |-> m.internships = 0, weight |-> 70,
     tip |-> "Consider internship opportunities for industry experience."] >>

\* Variant: the study-hours rule fires above 8 hours.
RiskRules_StudyHoursReversed(m) == <<
    [fires |-> m.attendance < 75, weight |-> 200,
     tip |-> "Improve attendance to at least 85% for better outcomes."],
    [fires |-> m.marks < 60, weight |-> 250,
     tip |-> "Focus on core subjects to raise marks above 70%."],
    [fires |-> m.mst_marks < 16, weight |-> 200,
     tip |-> "MST performance is low. Schedule revision sessions weekly."],
    [fires |-> m.study_hours > 8, weight |-> 100,
     tip |-> "Increase study hours to at least 12-15 hours per week."],
    [fires |-> m.assignments < 60, weight |-> 150,
     tip |-> "Complete and revise assignments to boost score."],
    [fires |-> m.extracurriculars < 2, weight |-> 50,
     tip |-> "Engage in extracurricular activities for balance."],
    [fires |-> m.projects = 0, weight |-> 100,
     tip |-> "Complete project work to enhance practical skills."],
    [fires |-> m.certifications = 0, weight |-> 80,
     tip |-> "Earn certifications to boost your profile."],
    [fires |-> m.internships = 0, weight |-> 70,
     tip |-> "Consider internship opportunities for industry experience."] >>

\* The nine `if` statements of calculate_risk, in source order: the
\* condition, the amount added to risk, the tip appended.
RiskRules(m) == <<
    [fires |-> m.attendance < 75, weight |-> 200,
     tip |-> "Improve attendance to at least 85% for better outcomes."],
    [fires |-> m.marks < 60, weight |-> 250,
     tip |-> "Focus on core subjects to raise marks above 70%."],
    [fires |-> m.mst_marks < 16, weight |-> 200,
     tip |-> "MST performance is low. Schedule revision sessions weekly."],
    [fires |-> m.study_hours < 8, weight |-> 100,
     tip |-> "Increase study hours to at least 12-15 hours per week."],
    [fires |-> m.assignments < 60, weight |-> 150,
     tip |-> "Complete and revise assignments to boost score."],
    [fires |-> m.extracurriculars < 2, weight |-> 50,
     tip |-> "Engage in extracurricular activities for balance."],
    [fires |-> m.projects = 0, weight |-> 100,
     tip |-> "Complete project work to enhance practical skills."],
    [fires |-> m.certifications = 0, weight |-> 80,
     tip |-> "Earn certifications to boost your profile."],
    [fires |-> m.internships = 0, weight |-> 70,
     tip |-> "Consider internship opportunities for industry experience."] >>

\* Runs the `if` statements rules[i..] on the accumulator [risk, tips].
RECURSIVE RunRules(_, _, _)
RunRules(rules, i, acc) ==
    IF i > Len(rules) THEN acc
    ELSE RunRules(rules, i + 1,
            IF rules[i].fires
            THEN [risk |-> acc.risk + rules[i].weight,
                  tips |-> Append(acc.tips, rules[i].tip)]
            ELSE acc)

Min(a, b) == IF a < b THEN a ELSE b
Max(a, b) == IF a > b THEN a ELSE b

\* Variant: the upper bound of the clamp is lost.
Clamp_NoUpperBound(risk) == Max(risk, 0)

\* risk = min(max(risk, 0.0), 1.0)
Clamp(risk) == Min(Max(risk, 0), 1000)

\* Variant: the thresholds compared with <= instead of <.
RiskLevel_Inclusive(risk) ==
    IF risk <= 400 THEN "Low" ELSE (IF risk <= 700 THEN "Medium" ELSE "High")

\* level = "Low" if risk < 0.4 else ("Medium" if risk < 0.7 else "High")
RiskLevel(risk) ==
    IF risk < 400 THEN "Low" ELSE (IF risk < 700 THEN "Medium" ELSE "High")

\* Variant: the `if not tips` fallback is missing.
calculate_risk_NoFallback(m, pm) ==
    LET start == [risk |-> ProbabilityTerm(pm), tips |-> <<>>]
        acc   == RunRules(RiskRules(m), 1, start)
        risk  == Clamp(acc.risk)
    IN  [risk |-> risk, level |-> RiskLevel(risk), tips |-> acc.tips]

\* Variant: the tips are cut to five, as the display does (tips[:5]).
calculate_risk_FiveTips(m, pm) ==
    LET start == [risk |-> ProbabilityTerm(pm), tips |-> <<>>]
        acc   == RunRules(RiskRules(m), 1, start)
        risk  == Clamp(acc.risk)
        tips  == IF acc.tips = <<>> THEN <<PositiveTip>> ELSE acc.tips
    IN  [risk |-> risk, level |-> RiskLevel(risk),
         tips |-> SubSeq(tips, 1, Min(5, Len(tips)))]

calculate_risk(m, pm) ==
    LET start == [risk |-> ProbabilityTerm(pm), tips |-> <<>>]
        acc   == RunRules(RiskRules(m), 1, start)
        risk  == Clamp(acc.risk)
        level == RiskLevel(risk)
        tips  == IF acc.tips = <<>> THEN <<PositiveTip>> ELSE acc.tips
    IN  [risk |-> risk, level |-> level, tips |-> tips]

----------------------------------------------------------------------------
(* generate_recommendation                                                 *)

Affirmation == "Maintain current performance - you're excelling!"
Separator == " | "

\* Variant: the recommendation rules reuse the risk engine's thresholds.
RecommendationRules_RiskThresholds(m) == <<
    [fires |-> m.attendance < 75, directive |-> "Improve attendance"],
    [fires |-> m.marks < 60, directive |-> "Focus on marks"],
    [fires |-> m.mst_marks < 16, directive |-> "Boost MST prep"],
    [fires |-> m.study_hours < 8, directive |-> "Increase study time"],
    [fires |-> m.assignments < 60, directive |-> "Complete assignments"],
    [fires |-> m.extracurriculars < 2, directive |-> "Join activities"],
    [fires |-> m.projects = 0, directive |-> "Work on projects"],
    [fires |-> m.certifications = 0, directive |-> "Earn certifications"],
    [fires |-> m.internships = 0, directive |-> "Pursue internships"] >>

\* Variant: the marks directive triggers below 50 only.
RecommendationRules_LowerMarks(m) == <<
    [fires |-> m.attendance < 75, directive |-> "Improve attendance"],
    [fires |-> m.marks < 50, directive |-> "Focus on marks"],
    [fires |-> m.mst_marks < 16, directive |-> "Boost MST prep"],
    [fires |-> m.study_hours < 10, directive |-> "Increase study time"],
    [fires |-> m.assignments < 70, directive |-> "Complete assignments"],
    [fires |-> m.extracurriculars < 2, directive |-> "Join activities"],
    [fires |-> m.projects = 0, directive |-> "Work on projects"],
    [fires |-> m.certifications = 0, directive |-> "Earn certifications"],
    [fires |-> m.internships = 0, directive |-> "Pursue internships"] >>

\* The nine `if` statements of generate_recommendation, in source order.
RecommendationRules(m) == <<
    [fires |-> m.attendance < 75, directive |-> "Improve attendance"],
    [fires |-> m.marks < 70, directive |-> "Focus on marks"],
    [fires |-> m.mst_marks < 16, directive |-> "Boost MST prep"],
    [fires |-> m.study_hours < 10, directive |-> "Increase study time"],
    [fires |-> m.assignments < 70, directive |-> "Complete assignments"],
    [fires |-> m.extracurriculars < 2, directive |-> "Join activities"],
    [fires |-> m.projects = 0, directive |-> "Work on projects"],
    [fires |-> m.certifications = 0, directive |-> "Earn certifications"],
    [fires |-> m.internships = 0, directive |-> "Pursue internships"] >>

\* Variant: the statements form an if/elif chain, so only the first fires.
RECURSIVE RunRecommendationRules_Elif(_, _, _)
RunRecommendationRules_Elif(rules, i, recs) ==
    IF i > Len(rules) THEN recs
    ELSE IF rules[i].fires THEN Append(recs, rules[i].directive)
    ELSE RunRecommendationRules_Elif(rules, i + 1, recs)

\* recs after the `if` statements rules[i..] ran on recs.
RECURSIVE RunRecommendationRules(_, _, _)
RunRecommendationRules(rules, i, recs) ==
    IF i > Len(rules) THEN recs
    ELSE RunRecommendationRules(rules, i + 1,
            IF rules[i].fires THEN Append(recs, rules[i].directive) ELSE recs)

\* Variant: a separator follows every part, the last one too.
RECURSIVE Join_TrailingSeparator(_, _)
Join_TrailingSeparator(sep, parts) ==
    IF Len(parts) = 0 THEN <<>>
    ELSE <<parts[1], sep>> \o Join_TrailingSeparator(sep, Tail(parts))

\* sep.join(parts), as the sequence of its tokens.
RECURSIVE Join(_, _)
Join(sep, parts) ==
    IF Len(parts) = 0 THEN <<>>
    ELSE IF Len(parts) = 1 THEN <<parts[1]>>
    ELSE <<parts[1], sep>> \o Join(sep, Tail(parts))

generate_recommendation(m) ==
    LET recs == RunRecommendationRules(RecommendationRules(m), 1, <<>>)
    IN  IF recs = <<>> THEN <<Affirmation>> ELSE Join(Separator, recs)

----------------------------------------------------------------------------
(* The classifier singleton: _ensure_model and predict_grade               *)

\* Threads of one process that run page scripts (bound).
NumThreads == 2
\* The history counters stop counting here (bound).
CountCap == 2

Threads == 1..NumThreads

\* Python's None.
None == [kind |-> "None"]

\* The vectors predict_grade is called with.
ProbeVectors == {Scenario1, Scenario2}

\* mst_normalized = (mst_marks / 40.0) * 100.0 ; X = np.array([[...]])
FeatureRow(x) == [x EXCEPT !.mst_marks = (x.mst_marks * 100) \div 40]

\* The classifier that fitting on _generate_synthetic_dataset(2000, 42) with
\* random_state=0 yields: classes_ is the sorted set of the labels the
\* generator assigns, predict_proba is a fixed function of the feature row.
\* Its values are not computable here; one fixed table stands for them.
TrainedModel ==
    [kind |-> "RandomForestClassifier",
     classes |-> <<"A", "B", "C", "D">>,
     proba |-> [r \in {FeatureRow(x) : x \in ProbeVectors} |->
                   IF r.marks >= 60 THEN <<400, 600, 0, 0>> ELSE <<0, 0, 400, 600>>]]

\* Pickles that can be at MODEL_PATH without this program having written
\* them (MODEL_PATH is configurable; nothing checks what is loaded): a
\* classifier fitted on three labels, and an object that is no classifier.
ThreeClassModel ==
    [kind |-> "RandomForestClassifier",
     classes |-> <<"A", "B", "C">>,
     proba |-> [r \in {FeatureRow(x) : x \in ProbeVectors} |->
                   IF r.marks >= 60 THEN <<600, 400, 0>> ELSE <<0, 400, 600>>]]
OtherObject == [kind |-> "object"]

\* The file at MODEL_PATH.
Absent == [state |-> "absent"]
Partial == [state |-> "partial"]
File(obj) == [state |-> "complete", content |-> obj]

\* os.path.exists(MODEL_PATH)
Exists == artifact # Absent

\* list(model.classes_)
List(items) == [kind |-> "list", items |-> items]

\* What a predict_grade call left in ret.
Ok(grade, pm) == [status |-> "ok", grade |-> grade, prob_map |-> pm]
\* ... together with the vector it was called with (history).
For(x, r) == [status |-> r.status, grade |-> r.grade, prob_map |-> r.prob_map, x |-> x]
Raised(e) == [status |-> "raised", error |-> e]
NoReturn == [status |-> "none"]

\* Variant: the last index of the maximum is taken.
ArgMax_Last(probs) ==
    CHOOSE i \in 1..Len(probs) :
        /\ \A j \in 1..Len(probs) : probs[j] <= probs[i]
        /\ \A j \in (i + 1)..Len(probs) : probs[j] < probs[i]

\* int(np.argmax(probs)): the first index of the maximum.
ArgMax(probs) ==
    CHOOSE i \in 1..Len(probs) :
        /\ \A j \in 1..Len(probs) : probs[j] <= probs[i]
        /\ \A j \in 1..(i - 1) : probs[j] < probs[i]

\* {label: float(prob) for label, prob in zip(_CLASSES, probs)}
ZipMap(classes, probs) ==
    LET n == Min(Len(classes), Len(probs))
    IN  [l \in {classes[i] : i \in 1..n} |->
            probs[CHOOSE i \in 1..n :
                    classes[i] = l /\ \A j \in (i + 1)..n : classes[j] # l]]

\* Lines 115-122 of predict_grade, on the globals as they are.
Predict(model, classes, x) ==
    LET probs == model.proba[FeatureRow(x)]
        pred_idx == ArgMax(probs)
    IN  Ok(classes[pred_idx], ZipMap(classes, probs))

\* The state right after `import backend`, with nobody calling.
ModelMemoryFresh ==
    /\ MODEL = None
    /\ CLASSES = None
    /\ writers = {}
    /\ pc = [t \in Threads |-> "idle"]
    /\ arg = [t \in Threads |-> None]
    /\ local_model = [t \in Threads |-> None]
    /\ ret = [t \in Threads |-> NoReturn]
    /\ late = [t \in Threads |-> FALSE]
    /\ init_done = FALSE
    /\ n_train = 0
    /\ n_load = 0
    /\ n_write = 0
    /\ first_result = [x \in ProbeVectors |-> NoReturn]

\* The classifier component with no process activity (used where only the
\* pure functions are exercised).
ModelIdle ==
    /\ proc_up = TRUE
    /\ artifact = Absent
    /\ ModelMemoryFresh
    /\ started_with_artifact = FALSE
    /\ path_ok = TRUE

----------------------------------------------------------------------------
(* The database: tables, values and statements of database.py              *)

NumCallers == 2
MaxRows == 3

\* The page scripts that call into database.py concurrently.
Callers == 1..NumCallers

\* Ids of students and subjects that records are saved for.
Pairs == {<<1, 1>>, <<1, 2>>}
\* The thirteen metric and derived columns of a record, as one value.
FieldValues == {"fields1", "fields2"}
ClassIds == {1, 2}
RollNumbers == {"101", "102"}
\* "" is an empty form field.
Emails == {"", "a@school.org", "b@school.org"}

NoFrame == [op |-> "none"]
\* What a call returned; with it (history) the function called, the exception
\* it caught ("" if none) and, for add_record, the (student, subject) pair.
NoValue == [kind |-> "none"]
Value(v, frame, e) ==
    [kind |-> "value", value |-> v, op |-> frame.op, caught |-> e,
     pair |-> IF frame.op = "add_record"
              THEN <<frame.student_id, frame.subject_id>> ELSE <<>>]
\* cur.fetchone(): a row or None.
Row(r) == [kind |-> "Row", id |-> r.id]

\* SELECT id FROM student_records WHERE student_id = ? AND subject_id = ?
RecordsOf(rows, sid, subj) ==
    {r \in rows : r.student_id = sid /\ r.subject_id = subj}

\* Variant: the UPDATE leaves out the subject (WHERE student_id = ?).
UpdateRecords_AnySubject(rows, sid, subj, f) ==
    {IF r.student_id = sid THEN [r EXCEPT !.fields = f] ELSE r : r \in rows}

\* UPDATE student_records SET <fields> WHERE student_id = ? AND subject_id = ?
UpdateRecords(rows, sid, subj, f) ==
    {IF r.student_id = sid /\ r.subject_id = subj THEN [r EXCEPT !.fields = f] ELSE r :
        r \in rows}

\* UNIQUE(class_id, roll_number): a row other than `id` has this class and roll.
RollTaken(rows, id, class, roll) ==
    \E r \in rows : r.id # id /\ r.class_id = class /\ r.roll_number = roll

\* email TEXT UNIQUE: a row has this email.
EmailTaken(rows, email) == \E r \in rows : r.email = email

\* The other tables after create_tables on a new file; the student
\* dashboard has not been opened.
SchoolIdle ==
    /\ classes_table = {}
    /\ subjects = {}
    /\ now = 0
    /\ records = NotCalled
    /\ latest_record = NotCalled

\* The tables after create_tables on a new file, and nobody calling.
DbIdle ==
    /\ teachers = {}
    /\ students = {}
    /\ student_records = {}
    /\ seq = [teachers |-> 0, classes |-> 0, subjects |-> 0, students |-> 0,
              student_records |-> 0]
    /\ db_pc = [c \in Callers |-> "idle"]
    /\ db_frame = [c \in Callers |-> NoFrame]
    /\ db_ret = [c \in Callers |-> NoValue]
    /\ overlapped = FALSE
    /\ first_id = [p \in Pairs |-> 0]
    /\ last_save = [p \in Pairs |-> None]

----------------------------------------------------------------------------
(* _generate_synthetic_dataset: the label of a sample                      *)
(* A float score x is represented by floor(x): the masks compare it only   *)
(* against integer literals.                                               *)

\* How far score + noise can lie outside [0, 100] in the inputs drawn here.
ScoreReach == 20
RawScores == (0 - ScoreReach)..(100 + ScoreReach)

\* np.clip(x, lo, hi)
Clip(x, lo, hi) == Min(Max(x, lo), hi)

\* An entry of an object array: None (np.empty) or a string.
Str(s) == [kind |-> "str", value |-> s]

\* labels[mask] = value, for one entry.
MaskedAssign(old, mask, value) == IF mask THEN Str(value) ELSE old

\* Variant: the B mask excludes 70.
AssignLabels_OpenB(s) ==
    LET l0 == None
        l1 == MaskedAssign(l0, s >= 85, "A")
        l2 == MaskedAssign(l1, (s > 70) /\ (s < 85), "B")
        l3 == MaskedAssign(l2, (s >= 55) /\ (s < 70), "C")
    IN  MaskedAssign(l3, s < 55, "D")

\* 41-45: labels = np.empty(n, dtype=object) and the four masked assignments.
AssignLabels(s) ==
    LET l0 == None
        l1 == MaskedAssign(l0, s >= 85, "A")
        l2 == MaskedAssign(l1, (s >= 70) /\ (s < 85), "B")
        l3 == MaskedAssign(l2, (s >= 55) /\ (s < 70), "C")
    IN  MaskedAssign(l3, s < 55, "D")

LabelIdle ==
    /\ raw_score = 0
    /\ sample_score = NotCalled
    /\ labels = NotCalled

MoreIdle == LabelIdle /\ SchoolIdle

----------------------------------------------------------------------------
(* The calls                                                               *)

Init ==
    /\ metrics \in MetricVectors
    /\ prob_map \in ProbMaps
    /\ risk_result = NotCalled
    /\ recommendation = NotCalled
    /\ ModelIdle
    /\ DbIdle
    /\ MoreIdle

CalculateRisk ==
    /\ risk_result = NotCalled
    /\ risk_result' = Returned(calculate_risk(metrics, prob_map))
    /\ UNCHANGED <<metrics, prob_map, recommendation>>
    /\ UNCHANGED <<modelVars, dbVars, moreVars>>

GenerateRecommendation ==
    /\ recommendation = NotCalled
    /\ recommendation' = Returned(generate_recommendation(metrics))
    /\ UNCHANGED <<metrics, prob_map, risk_result>>
    /\ UNCHANGED <<modelVars, dbVars, moreVars>>

Next == CalculateRisk \/ GenerateRecommendation

Spec == Init /\ [][Next]_vars

----------------------------------------------------------------------------
(* The process: threads running predict_grade, restarts, operator cleanup.  *)
(* A thread's pc names the source line of backend.py it executes next; the *)
(* interpreter may switch threads between any two of them.                 *)

InitModel ==
    /\ metrics = Scenario1
    /\ prob_map = NoMap
    /\ risk_result = NotCalled
    /\ recommendation = NotCalled
    /\ proc_up = TRUE
    /\ artifact \in {Absent, Partial, File(TrainedModel), File(ThreeClassModel),
                     File(OtherObject)}
    /\ ModelMemoryFresh
    /\ started_with_artifact = Exists
    /\ path_ok \in BOOLEAN
    /\ DbIdle
    /\ MoreIdle

historyVars == <<late, init_done, started_with_artifact, n_train, n_load,
                 n_write, first_result>>

Count(n) == IF n < CountCap THEN n + 1 ELSE n

Goto(t, line) == pc' = [pc EXCEPT ![t] = line]

\* An exception leaves predict_grade: the call ends without a value.
Raise(t, e) ==
    /\ pc' = [pc EXCEPT ![t] = "idle"]
    /\ ret' = [ret EXCEPT ![t] = Raised(e)]
    /\ local_model' = [local_model EXCEPT ![t] = None]
    /\ arg' = [arg EXCEPT ![t] = None]
    /\ late' = [late EXCEPT ![t] = FALSE]

\* A page script calls predict_grade(x); line 112 enters _ensure_model.
Call(t, x) ==
    /\ proc_up /\ pc[t] = "idle"
    /\ Goto(t, "L55")
    /\ arg' = [arg EXCEPT ![t] = x]
    /\ ret' = [ret EXCEPT ![t] = NoReturn]
    /\ late' = [late EXCEPT ![t] = init_done]
    /\ UNCHANGED <<moreVars, dbVars, riskVars, proc_up, artifact, writers, MODEL, CLASSES,
                   local_model, init_done, started_with_artifact, n_train,
                   n_load, n_write, first_result, path_ok>>

\* Variant: the `if _MODEL is not None: return` guard is missing.
L55_NoCheck(t) ==
    /\ proc_up /\ pc[t] = "L55"
    /\ Goto(t, "L57")
    /\ UNCHANGED <<moreVars, dbVars, riskVars, proc_up, artifact, writers, MODEL, CLASSES, arg,
                   local_model, ret, late, init_done, started_with_artifact,
                   n_train, n_load, n_write, first_result, path_ok>>

\* 55-56: if _MODEL is not None: return
L55(t) ==
    /\ proc_up /\ pc[t] = "L55"
    /\ IF MODEL # None THEN Goto(t, "L113") ELSE Goto(t, "L57")
    /\ UNCHANGED <<moreVars, dbVars, riskVars, proc_up, artifact, writers, MODEL, CLASSES, arg,
                   local_model, ret, late, init_done, started_with_artifact,
                   n_train, n_load, n_write, first_result, path_ok>>

\* Variant: the branches of the existence test are swapped.
L57_Inverted(t) ==
    /\ proc_up /\ pc[t] = "L57"
    /\ IF ~Exists THEN Goto(t, "L58") ELSE Goto(t, "L61")
    /\ UNCHANGED <<moreVars, dbVars, riskVars, proc_up, artifact, writers, MODEL, CLASSES, arg,
                   local_model, ret, late, init_done, started_with_artifact,
                   n_train, n_load, n_write, first_result, path_ok>>

\* 57: if os.path.exists(MODEL_PATH):
L57(t) ==
    /\ proc_up /\ pc[t] = "L57"
    /\ IF Exists THEN Goto(t, "L58") ELSE Goto(t, "L61")
    /\ UNCHANGED <<moreVars, dbVars, riskVars, proc_up, artifact, writers, MODEL, CLASSES, arg,
                   local_model, ret, late, init_done, started_with_artifact,
                   n_train, n_load, n_write, first_result, path_ok>>

\* 58: _MODEL = joblib.load(MODEL_PATH).  A file that is absent or only
\* partly written makes the load raise.
L58(t) ==
    /\ proc_up /\ pc[t] = "L58"
    /\ path_ok
    /\ IF artifact.state = "complete"
       THEN /\ MODEL' = artifact.content
            /\ n_load' = Count(n_load)
            /\ Goto(t, "L59")
            /\ UNCHANGED <<ret, local_model, arg, late>>
       ELSE /\ Raise(t, IF artifact = Absent THEN "FileNotFoundError" ELSE "EOFError")
            /\ UNCHANGED <<MODEL, n_load>>
    /\ UNCHANGED <<moreVars, dbVars, riskVars, proc_up, artifact, writers, CLASSES, init_done,
                   started_with_artifact, n_train, n_write, first_result,
                   path_ok>>

\* 58, MODEL_PATH unreadable: joblib.load raises OSError.
L58_IOError(t) ==
    /\ proc_up /\ pc[t] = "L58"
    /\ ~path_ok
    /\ Raise(t, "OSError")
    /\ UNCHANGED <<moreVars, dbVars, riskVars, proc_up, artifact, writers, MODEL, CLASSES,
                   init_done, started_with_artifact, n_train, n_load, n_write,
                   first_result, path_ok>>

\* 59-60: _CLASSES = list(_MODEL.classes_) ; return
L59(t) ==
    /\ proc_up /\ pc[t] = "L59"
    /\ IF MODEL.kind = "RandomForestClassifier"
       THEN /\ CLASSES' = List(MODEL.classes)
            /\ init_done' = TRUE
            /\ Goto(t, "L113")
            /\ UNCHANGED <<ret, local_model, arg, late>>
       ELSE /\ Raise(t, "AttributeError")
            /\ UNCHANGED <<CLASSES, init_done>>
    /\ UNCHANGED <<moreVars, dbVars, riskVars, proc_up, artifact, writers, MODEL,
                   started_with_artifact, n_train, n_load, n_write,
                   first_result, path_ok>>

\* Variant: the fit is not seeded, so two fits give different classifiers.
L61_Unseeded(t) ==
    /\ proc_up /\ pc[t] = "L61"
    /\ \E fit \in {TrainedModel, [TrainedModel EXCEPT !.proba = [r \in DOMAIN @ |-> <<600, 400, 0, 0>>]]} :
          local_model' = [local_model EXCEPT ![t] = fit]
    /\ n_train' = Count(n_train)
    /\ Goto(t, "L64")
    /\ UNCHANGED <<moreVars, dbVars, riskVars, proc_up, artifact, writers, MODEL, CLASSES, arg,
                   ret, late, init_done, started_with_artifact, n_load,
                   n_write, first_result, path_ok>>

\* 61-63: X, y = _generate_synthetic_dataset() ; model = ... ; model.fit(X, y)
L61(t) ==
    /\ proc_up /\ pc[t] = "L61"
    /\ local_model' = [local_model EXCEPT ![t] = TrainedModel]
    /\ n_train' = Count(n_train)
    /\ Goto(t, "L64")
    /\ UNCHANGED <<moreVars, dbVars, riskVars, proc_up, artifact, writers, MODEL, CLASSES, arg,
                   ret, late, init_done, started_with_artifact, n_load,
                   n_write, first_result, path_ok>>

\* 64, first half: joblib.dump opens MODEL_PATH for writing, which truncates
\* whatever was there.
L64(t) ==
    /\ proc_up /\ pc[t] = "L64"
    /\ path_ok
    /\ artifact' = Partial
    /\ writers' = writers \cup {t}
    /\ Goto(t, "L64w")
    /\ UNCHANGED <<moreVars, dbVars, riskVars, proc_up, MODEL, CLASSES, arg, local_model, ret,
                   late, init_done, started_with_artifact, n_train, n_load,
                   n_write, first_result, path_ok>>

\* 64, MODEL_PATH unwritable: joblib.dump raises OSError, the file untouched.
L64_IOError(t) ==
    /\ proc_up /\ pc[t] = "L64"
    /\ ~path_ok
    /\ Raise(t, "OSError")
    /\ UNCHANGED <<moreVars, dbVars, riskVars, proc_up, artifact, writers, MODEL, CLASSES,
                   init_done, started_with_artifact, n_train, n_load, n_write,
                   first_result, path_ok>>

\* 64, second half: the last byte is written.  The file is whole once no
\* other thread is still writing it.
L64w(t) ==
    /\ proc_up /\ pc[t] = "L64w"
    /\ writers' = writers \ {t}
    /\ artifact' = IF writers \ {t} = {} THEN File(local_model[t]) ELSE Partial
    /\ n_write' = Count(n_write)
    /\ Goto(t, "L65")
    /\ UNCHANGED <<moreVars, dbVars, riskVars, proc_up, MODEL, CLASSES, arg, local_model, ret,
                   late, init_done, started_with_artifact, n_train, n_load,
                   first_result, path_ok>>

\* 65: _MODEL = model
L65(t) ==
    /\ proc_up /\ pc[t] = "L65"
    /\ MODEL' = local_model[t]
    /\ Goto(t, "L66")
    /\ UNCHANGED <<moreVars, dbVars, riskVars, proc_up, artifact, writers, CLASSES, arg,
                   local_model, ret, late, init_done, started_with_artifact,
                   n_train, n_load, n_write, first_result, path_ok>>

\* 66: _CLASSES = list(model.classes_) ; _ensure_model returns
L66(t) ==
    /\ proc_up /\ pc[t] = "L66"
    /\ CLASSES' = List(local_model[t].classes)
    /\ local_model' = [local_model EXCEPT ![t] = None]
    /\ init_done' = TRUE
    /\ Goto(t, "L113")
    /\ UNCHANGED <<moreVars, dbVars, riskVars, proc_up, artifact, writers, MODEL, arg, ret, late,
                   started_with_artifact, n_train, n_load, n_write,
                   first_result, path_ok>>

\* 113: assert _MODEL is not None and _CLASSES is not None
L113(t) ==
    /\ proc_up /\ pc[t] = "L113"
    /\ IF MODEL # None /\ CLASSES # None
       THEN Goto(t, "L115") /\ UNCHANGED <<ret, local_model, arg, late>>
       ELSE Raise(t, "AssertionError")
    /\ UNCHANGED <<moreVars, dbVars, riskVars, proc_up, artifact, writers, MODEL, CLASSES,
                   init_done, started_with_artifact, n_train, n_load, n_write,
                   first_result, path_ok>>

\* 115-122: the prediction and its return.
L115(t) ==
    /\ proc_up /\ pc[t] = "L115"
    /\ IF MODEL.kind # "RandomForestClassifier"
       THEN Raise(t, "AttributeError") /\ UNCHANGED first_result
       ELSE LET r == For(arg[t], Predict(MODEL, CLASSES.items, arg[t]))
            IN  /\ ret' = [ret EXCEPT ![t] = r]
                /\ Goto(t, "idle")
                /\ arg' = [arg EXCEPT ![t] = None]
                /\ late' = [late EXCEPT ![t] = FALSE]
                /\ first_result' =
                      IF first_result[arg[t]] = NoReturn
                      THEN [first_result EXCEPT ![arg[t]] = r]
                      ELSE first_result
                /\ UNCHANGED local_model
    /\ UNCHANGED <<moreVars, dbVars, riskVars, proc_up, artifact, writers, MODEL, CLASSES,
                   init_done, started_with_artifact, n_train, n_load, n_write,
                   path_ok>>

\* The process ends (exit or kill, at any point): its memory is gone, the
\* file stays as it is, partly written if a dump was under way.
Stop ==
    /\ proc_up
    /\ proc_up' = FALSE
    /\ MODEL' = None /\ CLASSES' = None /\ writers' = {}
    /\ pc' = [t \in Threads |-> "idle"]
    /\ arg' = [t \in Threads |-> None]
    /\ local_model' = [t \in Threads |-> None]
    /\ ret' = [t \in Threads |-> NoReturn]
    /\ late' = [t \in Threads |-> FALSE]
    /\ init_done' = FALSE
    /\ n_train' = 0 /\ n_load' = 0 /\ n_write' = 0
    /\ first_result' = [x \in ProbeVectors |-> NoReturn]
    /\ UNCHANGED <<moreVars, dbVars, riskVars, artifact, started_with_artifact, path_ok>>

\* cleanup_and_setup.py, run by the operator while the app is down ("Now
\* restart the app"): removes model.pkl if it exists.
Cleanup ==
    /\ ~proc_up
    /\ Exists
    /\ artifact' = Absent
    /\ UNCHANGED <<moreVars, dbVars, riskVars, proc_up, writers, MODEL, CLASSES, pc, arg,
                   local_model, ret, late, init_done, started_with_artifact,
                   n_train, n_load, n_write, first_result, path_ok>>

\* The app is started again: `import backend` runs lines 10-12.
Start ==
    /\ ~proc_up
    /\ proc_up' = TRUE
    /\ started_with_artifact' = Exists
    /\ UNCHANGED <<moreVars, dbVars, riskVars, artifact, writers, MODEL, CLASSES, pc, arg,
                   local_model, ret, late, init_done, n_train, n_load, n_write,
                   first_result, path_ok>>

\* Environment: the permissions of MODEL_PATH (or the disk) change.
PathChanges ==
    /\ path_ok' = ~path_ok
    /\ UNCHANGED <<moreVars, dbVars, riskVars, proc_up, artifact, writers, MODEL, CLASSES, pc,
                   arg, local_model, ret, late, init_done,
                   started_with_artifact, n_train, n_load, n_write,
                   first_result>>

NextModel ==
    \/ \E t \in Threads : \E x \in ProbeVectors : Call(t, x)
    \/ \E t \in Threads :
          \/ L55(t) \/ L57(t) \/ L58(t) \/ L58_IOError(t) \/ L59(t)
          \/ L61(t) \/ L64(t) \/ L64_IOError(t) \/ L64w(t) \/ L65(t) \/ L66(t)
          \/ L113(t) \/ L115(t)
    \/ Stop
    \/ Cleanup
    \/ Start
    \/ PathChanges

SpecModel == InitModel /\ [][NextModel]_vars

\* One process lifetime in which the page scripts also call calculate_risk and
\* generate_recommendation (app.py 534, 539) between their predict_grade calls.
NextLifetime ==
    \/ \E t \in Threads : \E x \in ProbeVectors : Call(t, x)
    \/ \E t \in Threads :
          \/ L55(t) \/ L57(t) \/ L58(t) \/ L58_IOError(t) \/ L59(t)
          \/ L61(t) \/ L64(t) \/ L64_IOError(t) \/ L64w(t) \/ L65(t) \/ L66(t)
          \/ L113(t) \/ L115(t)
    \/ CalculateRisk
    \/ GenerateRecommendation

SpecLifetime == InitModel /\ [][NextLifetime]_vars

\* One page script at a time: its predict_grade calls follow one another,
\* while MODEL_PATH may be unreadable or unwritable.
NextOneCaller ==
    \/ \E x \in ProbeVectors : Call(1, x)
    \/ L55(1) \/ L57(1) \/ L58(1) \/ L58_IOError(1) \/ L59(1)
    \/ L61(1) \/ L64(1) \/ L64_IOError(1) \/ L64w(1) \/ L65(1) \/ L66(1)
    \/ L113(1) \/ L115(1)
    \/ PathChanges

SpecOneCaller == InitModel /\ [][NextOneCaller]_vars

----------------------------------------------------------------------------
(* predict_grade over the classifiers a forest can be.                     *)

\* The trees of the forest (n_estimators=200 in the source).
NumEstimators == 4

\* predict_proba of a forest is the mean of its trees' votes: every row is a
\* tuple of vote shares that add up to one, ties included.
VoteRows ==
    {<<(v[1] * 1000) \div NumEstimators, (v[2] * 1000) \div NumEstimators,
       (v[3] * 1000) \div NumEstimators, (v[4] * 1000) \div NumEstimators>> :
        v \in {w \in [1..4 -> 0..NumEstimators] :
                  w[1] + w[2] + w[3] + w[4] = NumEstimators}}

\* A classifier on the four labels whose answer to the low vector is the row
\* `low` and to the other vectors the row `high`.
Forest(low, high) ==
    [kind |-> "RandomForestClassifier",
     classes |-> <<"A", "B", "C", "D">>,
     proba |-> [r \in {FeatureRow(x) : x \in ProbeVectors} |->
                   IF r.marks >= 60 THEN high ELSE low]]

\* The process starts with such a classifier at MODEL_PATH.
InitArgMax ==
    /\ metrics = Scenario1
    /\ prob_map = NoMap
    /\ risk_result = NotCalled
    /\ recommendation = NotCalled
    /\ proc_up = TRUE
    /\ \E low \in VoteRows : \E high \in {<<1000, 0, 0, 0>>, <<0, 500, 500, 0>>} :
          artifact = File(Forest(low, high))
    /\ ModelMemoryFresh
    /\ started_with_artifact = TRUE
    /\ path_ok = TRUE
    /\ DbIdle
    /\ MoreIdle

\* One page script calls predict_grade again and again.
NextArgMax ==
    \/ \E x \in ProbeVectors : Call(1, x)
    \/ L55(1) \/ L57(1) \/ L58(1) \/ L59(1) \/ L113(1) \/ L115(1)

SpecArgMax == InitArgMax /\ [][NextArgMax]_vars

----------------------------------------------------------------------------
(* Calls into database.py.  A caller's db_pc names the line of the source   *)
(* it executes next.  A statement and the commit that follows it are one    *)
(* step: SQLite lets no other connection see or write between them.  Waits  *)
(* for the write lock are not represented.                                 *)

\* calculate_risk and generate_recommendation have not been called.
RiskIdle ==
    /\ metrics = Scenario1
    /\ prob_map = NoMap
    /\ risk_result = NotCalled
    /\ recommendation = NotCalled

DbInit ==
    /\ metrics = Scenario1
    /\ prob_map = NoMap
    /\ risk_result = NotCalled
    /\ recommendation = NotCalled
    /\ ModelIdle
    /\ DbIdle
    /\ MoreIdle

DbGoto(c, line) == db_pc' = [db_pc EXCEPT ![c] = line]

\* The call returns v, having caught exception e ("" if none).
DbReturn(c, v, e) ==
    /\ db_pc' = [db_pc EXCEPT ![c] = "idle"]
    /\ db_ret' = [db_ret EXCEPT ![c] = Value(v, db_frame[c], e)]
    /\ db_frame' = [db_frame EXCEPT ![c] = NoFrame]

\* Calls under way that may still insert a row into table `op` writes.
InFlight(op) == Cardinality({c \in Callers : db_frame[c].op = op})

\* add_record(student_id, subject_id, <fields>) is called (app.py 541).
AddRecordCall(c, sid, subj, f) ==
    /\ db_pc[c] = "idle"
    /\ seq.student_records + InFlight("add_record") < MaxRows
    /\ DbGoto(c, "L306")
    /\ db_frame' = [db_frame EXCEPT ![c] =
                       [op |-> "add_record", student_id |-> sid,
                        subject_id |-> subj, fields |-> f, existing |-> None]]
    /\ overlapped' = (overlapped \/ InFlight("add_record") > 0)
    /\ UNCHANGED <<moreVars, riskVars, modelVars, teachers, students, student_records,
                   seq, db_ret, first_id, last_save>>

\* 306-310: SELECT id ... ; existing = cur.fetchone()
AddRecordSelect(c) ==
    /\ db_pc[c] = "L306"
    /\ LET found == RecordsOf(student_records, db_frame[c].student_id,
                              db_frame[c].subject_id)
       IN  \/ /\ found = {}
              /\ db_frame' = [db_frame EXCEPT ![c].existing = None]
           \/ \E r \in found :
                 db_frame' = [db_frame EXCEPT ![c].existing = Row(r)]
    /\ DbGoto(c, "L312")
    /\ UNCHANGED <<moreVars, riskVars, modelVars, teachers, students, student_records,
                   seq, db_ret, overlapped, first_id, last_save>>

\* Variant: the function always inserts.
AddRecordWrite_AlwaysInsert(c) ==
    /\ db_pc[c] = "L312"
    /\ LET fr == db_frame[c]
           p == <<fr.student_id, fr.subject_id>>
           id == seq.student_records + 1
       IN  /\ student_records' = student_records \cup
                 {[id |-> id, student_id |-> fr.student_id,
                   subject_id |-> fr.subject_id, fields |-> fr.fields,
                           created_at |-> now]}
           /\ seq' = [seq EXCEPT !.student_records = id]
           /\ DbReturn(c, id, "")
           /\ first_id' = IF first_id[p] = 0 THEN [first_id EXCEPT ![p] = id]
                          ELSE first_id
           /\ last_save' = [last_save EXCEPT ![p] =
                               [fields |-> fr.fields, again |-> last_save[p] # None]]
    /\ UNCHANGED <<moreVars, riskVars, modelVars, teachers, students, overlapped>>

\* 312-339: if existing: UPDATE ... else: INSERT ... ; conn.commit() ;
\* return existing[0] if existing else cur.lastrowid
AddRecordWrite(c) ==
    /\ db_pc[c] = "L312"
    /\ LET fr == db_frame[c]
           p == <<fr.student_id, fr.subject_id>>
           id == IF fr.existing # None THEN fr.existing.id
                 ELSE seq.student_records + 1
       IN  /\ IF fr.existing # None
              THEN /\ student_records' =
                         UpdateRecords(student_records, fr.student_id,
                                       fr.subject_id, fr.fields)
                   /\ UNCHANGED seq
              ELSE /\ student_records' = student_records \cup
                         {[id |-> id, student_id |-> fr.student_id,
                           subject_id |-> fr.subject_id, fields |-> fr.fields,
                           created_at |-> now]}
                   /\ seq' = [seq EXCEPT !.student_records = id]
           /\ DbReturn(c, id, "")
           /\ first_id' = IF first_id[p] = 0 THEN [first_id EXCEPT ![p] = id]
                          ELSE first_id
           /\ last_save' = [last_save EXCEPT ![p] =
                               [fields |-> fr.fields, again |-> last_save[p] # None]]
    /\ UNCHANGED <<moreVars, riskVars, modelVars, teachers, students, overlapped>>

NextRecords ==
    \/ \E c \in Callers : \E p \in Pairs : \E f \in FieldValues :
          AddRecordCall(c, p[1], p[2], f)
    \/ \E c \in Callers : AddRecordSelect(c) \/ AddRecordWrite(c)

SpecRecords == DbInit /\ [][NextRecords]_vars

\* add_student(class_id, student_name, roll_number) is called.
AddStudentCall(c, class, roll) ==
    /\ db_pc[c] = "idle"
    /\ seq.students + InFlight("add_student") < MaxRows
    /\ DbGoto(c, "L250")
    /\ db_frame' = [db_frame EXCEPT ![c] =
                       [op |-> "add_student", class_id |-> class,
                        roll_number |-> roll]]
    /\ UNCHANGED <<moreVars, riskVars, modelVars, teachers, students, student_records,
                   seq, db_ret, overlapped, first_id, last_save>>

\* Variant: the table has no UNIQUE(class_id, roll_number).
AddStudent_NoUnique(c) ==
    /\ db_pc[c] = "L250"
    /\ LET fr == db_frame[c]
           id == seq.students + 1
       IN  /\ students' = students \cup
                 {[id |-> id, class_id |-> fr.class_id,
                   roll_number |-> fr.roll_number]}
           /\ seq' = [seq EXCEPT !.students = id]
           /\ DbReturn(c, id, "")
    /\ UNCHANGED <<moreVars, riskVars, modelVars, teachers, student_records, overlapped,
                   first_id, last_save>>

\* 249-257: INSERT INTO students ... ; conn.commit() ; return cur.lastrowid ;
\* except sqlite3.IntegrityError: return -1
AddStudent(c) ==
    /\ db_pc[c] = "L250"
    /\ LET fr == db_frame[c]
           id == seq.students + 1
       IN  IF RollTaken(students, id, fr.class_id, fr.roll_number)
           THEN /\ DbReturn(c, -1, "IntegrityError")
                /\ UNCHANGED <<students, seq>>
           ELSE /\ students' = students \cup
                      {[id |-> id, class_id |-> fr.class_id,
                        roll_number |-> fr.roll_number]}
                /\ seq' = [seq EXCEPT !.students = id]
                /\ DbReturn(c, id, "")
    /\ UNCHANGED <<moreVars, riskVars, modelVars, teachers, student_records, overlapped,
                   first_id, last_save>>

\* update_student(student_id, student_name, roll_number) is called.
UpdateStudentCall(c, id, roll) ==
    /\ db_pc[c] = "idle"
    /\ DbGoto(c, "L280")
    /\ db_frame' = [db_frame EXCEPT ![c] =
                       [op |-> "update_student", student_id |-> id,
                        roll_number |-> roll]]
    /\ UNCHANGED <<moreVars, riskVars, modelVars, teachers, students, student_records,
                   seq, db_ret, overlapped, first_id, last_save>>

\* 279-287: UPDATE students SET ... WHERE id = ? ; conn.commit() ;
\* return cur.rowcount > 0 ; except sqlite3.IntegrityError: return False
UpdateStudent(c) ==
    /\ db_pc[c] = "L280"
    /\ LET fr == db_frame[c]
           hit == {r \in students : r.id = fr.student_id}
       IN  IF \E r \in hit : RollTaken(students, r.id, r.class_id, fr.roll_number)
           THEN /\ DbReturn(c, FALSE, "IntegrityError")
                /\ UNCHANGED students
           ELSE /\ students' =
                      {IF r \in hit THEN [r EXCEPT !.roll_number = fr.roll_number]
                       ELSE r : r \in students}
                /\ DbReturn(c, Cardinality(hit) > 0, "")
    /\ UNCHANGED <<moreVars, riskVars, modelVars, teachers, student_records, seq,
                   overlapped, first_id, last_save>>

\* Sequences of add_student and update_student calls: a call begins when no
\* other is under way.
NextStudents ==
    \/ /\ \A d \in Callers : db_pc[d] = "idle"
       /\ \E c \in Callers : \E roll \in RollNumbers :
             \/ \E class \in ClassIds : AddStudentCall(c, class, roll)
             \/ \E id \in 1..MaxRows : UpdateStudentCall(c, id, roll)
    \/ \E c \in Callers : AddStudent(c) \/ UpdateStudent(c)

SpecStudents == DbInit /\ [][NextStudents]_vars

\* backend.register_teacher(name, email, password) is called.
RegisterTeacherCall(c, email) ==
    /\ db_pc[c] = "idle"
    /\ seq.teachers + InFlight("register_teacher") < MaxRows
    /\ DbGoto(c, "L90")
    /\ db_frame' = [db_frame EXCEPT ![c] =
                       [op |-> "register_teacher", email |-> email]]
    /\ UNCHANGED <<moreVars, riskVars, modelVars, teachers, students, student_records,
                   seq, db_ret, overlapped, first_id, last_save>>

\* backend.py 90-91: if not name or not email or not password: return ...
RegisterTeacherL90(c) ==
    /\ db_pc[c] = "L90"
    /\ IF db_frame[c].email = ""
       THEN DbReturn(c, <<FALSE, "All fields required.">>, "")
       ELSE DbGoto(c, "L92") /\ UNCHANGED <<db_frame, db_ret>>
    /\ UNCHANGED <<moreVars, riskVars, modelVars, teachers, students, student_records,
                   seq, overlapped, first_id, last_save>>

\* backend.py 92-94: existing = database.get_teacher_by_email(email) ;
\* if existing: return False, "Email already registered."
RegisterTeacherL92(c) ==
    /\ db_pc[c] = "L92"
    /\ IF EmailTaken(teachers, db_frame[c].email)
       THEN DbReturn(c, <<FALSE, "Email already registered.">>, "")
       ELSE DbGoto(c, "L96") /\ UNCHANGED <<db_frame, db_ret>>
    /\ UNCHANGED <<moreVars, riskVars, modelVars, teachers, students, student_records,
                   seq, overlapped, first_id, last_save>>

\* Variant: the table has no UNIQUE on email.
RegisterTeacherL96_NoUnique(c) ==
    /\ db_pc[c] = "L96"
    /\ LET id == seq.teachers + 1
       IN  /\ teachers' = teachers \cup {[id |-> id, email |-> db_frame[c].email]}
           /\ seq' = [seq EXCEPT !.teachers = id]
           /\ DbReturn(c, <<TRUE, "Teacher registered successfully.">>, "")
    /\ UNCHANGED <<moreVars, riskVars, modelVars, students, student_records, overlapped,
                   first_id, last_save>>

\* backend.py 95-99 with database.add_teacher (115-127): INSERT INTO teachers ;
\* commit ; IntegrityError gives -1 and
\* (False, "Failed to register. Email may be taken.")
RegisterTeacherL96(c) ==
    /\ db_pc[c] = "L96"
    /\ LET id == seq.teachers + 1
       IN  IF EmailTaken(teachers, db_frame[c].email)
           THEN /\ DbReturn(c, <<FALSE, "Failed to register. Email may be taken.">>,
                            "IntegrityError")
                /\ UNCHANGED <<teachers, seq>>
           ELSE /\ teachers' = teachers \cup
                      {[id |-> id, email |-> db_frame[c].email]}
                /\ seq' = [seq EXCEPT !.teachers = id]
                /\ DbReturn(c, <<TRUE, "Teacher registered successfully.">>, "")
    /\ UNCHANGED <<moreVars, riskVars, modelVars, students, student_records, overlapped,
                   first_id, last_save>>

NextTeachers ==
    \/ \E c \in Callers : \E email \in Emails : RegisterTeacherCall(c, email)
    \/ \E c \in Callers :
          RegisterTeacherL90(c) \/ RegisterTeacherL92(c) \/ RegisterTeacherL96(c)

SpecTeachers == DbInit /\ [][NextTeachers]_vars

----------------------------------------------------------------------------
(* Classes, subjects and the delete functions.  Each of these functions is  *)
(* one statement and its commit.  get_conn (8-16) opens the connection and  *)
(* issues no PRAGMA: SQLite leaves foreign keys unenforced on it, so the    *)
(* ON DELETE CASCADE clauses of the schema take no part in a DELETE.        *)

SubjectIds == {p[2] : p \in Pairs}

\* What a one-statement function returns.
Returns(c, op, v) ==
    /\ db_ret' = [db_ret EXCEPT ![c] = Value(v, [op |-> op], "")]
    /\ UNCHANGED <<db_pc, db_frame>>

\* DELETE FROM <table> WHERE id = ?
DeleteFrom(rows, id) == {r \in rows : r.id # id}

\* 147-156: INSERT INTO classes ... ; return cur.lastrowid
AddClass(c) ==
    /\ db_pc[c] = "idle"
    /\ seq.classes < Cardinality(ClassIds)
    /\ LET id == seq.classes + 1
       IN  /\ classes_table' = classes_table \cup {[id |-> id]}
           /\ seq' = [seq EXCEPT !.classes = id]
           /\ Returns(c, "add_class", id)
    /\ UNCHANGED <<labelVars, subjects, now, records, latest_record, riskVars,
                   modelVars, teachers, students, student_records, overlapped,
                   first_id, last_save>>

\* 200-209: INSERT INTO subjects ... ; return cur.lastrowid
AddSubject(c, class) ==
    /\ db_pc[c] = "idle"
    /\ seq.subjects < Cardinality(SubjectIds)
    /\ LET id == seq.subjects + 1
       IN  /\ subjects' = subjects \cup {[id |-> id, class_id |-> class]}
           /\ seq' = [seq EXCEPT !.subjects = id]
           /\ Returns(c, "add_subject", id)
    /\ UNCHANGED <<labelVars, classes_table, now, records, latest_record, riskVars,
                   modelVars, teachers, students, student_records, overlapped,
                   first_id, last_save>>

\* 182-188: DELETE FROM classes WHERE id = ? ; return cur.rowcount > 0
DeleteClass(c, id) ==
    /\ db_pc[c] = "idle"
    /\ classes_table' = DeleteFrom(classes_table, id)
    /\ Returns(c, "delete_class", classes_table' # classes_table)
    /\ UNCHANGED <<labelVars, subjects, now, records, latest_record, riskVars,
                   modelVars, teachers, students, student_records, seq,
                   overlapped, first_id, last_save>>

\* 235-241: DELETE FROM subjects WHERE id = ? ; return cur.rowcount > 0
DeleteSubject(c, id) ==
    /\ db_pc[c] = "idle"
    /\ subjects' = DeleteFrom(subjects, id)
    /\ Returns(c, "delete_subject", subjects' # subjects)
    /\ UNCHANGED <<labelVars, classes_table, now, records, latest_record, riskVars,
                   modelVars, teachers, students, student_records, seq,
                   overlapped, first_id, last_save>>

\* 289-295: DELETE FROM students WHERE id = ? ; return cur.rowcount > 0
DeleteStudent(c, id) ==
    /\ db_pc[c] = "idle"
    /\ students' = DeleteFrom(students, id)
    /\ Returns(c, "delete_student", students' # students)
    /\ UNCHANGED <<moreVars, riskVars, modelVars, teachers, student_records, seq,
                   overlapped, first_id, last_save>>

\* 376-382: DELETE FROM student_records WHERE id = ? ; return cur.rowcount > 0
DeleteRecord(c, id) ==
    /\ db_pc[c] = "idle"
    /\ student_records' = DeleteFrom(student_records, id)
    /\ Returns(c, "delete_record", student_records' # student_records)
    /\ UNCHANGED <<moreVars, riskVars, modelVars, teachers, students, seq,
                   overlapped, first_id, last_save>>

\* One teacher's page script: every call is made for rows that exist when
\* the call begins (the pages offer only those), one call after the other.
NextSchool ==
    \/ AddClass(1)
    \/ \E cl \in classes_table : AddSubject(1, cl.id)
    \/ /\ db_pc[1] = "idle"
       /\ \E cl \in classes_table : AddStudentCall(1, cl.id, "101")
    \/ AddStudent(1)
    \/ \E st \in students : \E s \in subjects :
          /\ <<st.id, s.id>> \in Pairs
          /\ AddRecordCall(1, st.id, s.id, "fields1")
    \/ AddRecordSelect(1)
    \/ AddRecordWrite(1)
    \/ \E cl \in classes_table : DeleteClass(1, cl.id)
    \/ \E s \in subjects : DeleteSubject(1, s.id)
    \/ \E st \in students : DeleteStudent(1, st.id)
    \/ \E r \in student_records : DeleteRecord(1, r.id)

SpecSchool == DbInit /\ [][NextSchool]_vars

----------------------------------------------------------------------------
(* The student dashboard.                                                  *)

\* How far the clock runs.
MaxTime == 2

\* The lists a SELECT ... ORDER BY created_at DESC can return for `rows`:
\* every row once, no row before one with a greater created_at; rows of the
\* same second come in any order.
OrderByCreatedAtDesc(rows) ==
    {q \in [1..Cardinality(rows) -> rows] :
        /\ \A i, j \in DOMAIN q : i # j => q[i] # q[j]
        /\ \A i, j \in DOMAIN q : i < j => q[i].created_at >= q[j].created_at}

\* 341-352: SELECT sr.*, s.subject_name FROM student_records sr
\* JOIN subjects s ON sr.subject_id = s.id WHERE sr.student_id = ?
\* ORDER BY sr.created_at DESC
get_student_records(student_id) ==
    OrderByCreatedAtDesc(
        {r \in student_records :
            /\ r.student_id = student_id
            /\ \E s \in subjects : s.id = r.subject_id})

\* A database in use: class 1 with subjects 1 and 2 and student 1, no
\* record yet, nobody calling.
SchoolReady ==
    /\ teachers = {}
    /\ classes_table = {[id |-> 1]}
    /\ subjects = {[id |-> s, class_id |-> 1] : s \in SubjectIds}
    /\ students = {[id |-> 1, class_id |-> 1, roll_number |-> "101"]}
    /\ student_records = {}
    /\ seq = [teachers |-> 0, classes |-> 1, subjects |-> Cardinality(SubjectIds),
              students |-> 1, student_records |-> 0]
    /\ db_pc = [c \in Callers |-> "idle"]
    /\ db_frame = [c \in Callers |-> NoFrame]
    /\ db_ret = [c \in Callers |-> NoValue]
    /\ overlapped = FALSE
    /\ first_id = [p \in Pairs |-> 0]
    /\ last_save = [p \in Pairs |-> None]
    /\ now = 0
    /\ records = NotCalled
    /\ latest_record = NotCalled
    /\ LabelIdle

InitDashboard ==
    /\ RiskIdle
    /\ ModelIdle
    /\ SchoolReady

\* A second passes.
Tick ==
    /\ now < MaxTime
    /\ now' = now + 1
    /\ UNCHANGED <<labelVars, classes_table, subjects, records, latest_record,
                   riskVars, modelVars, dbVars>>

\* app.py 140-146: records = database.get_student_records(student_id) ;
\* if records: latest_record = records[-1]
StudentDashboard(student_id) ==
    /\ \E q \in get_student_records(student_id) :
          /\ records' = Returned(q)
          /\ latest_record' = IF Len(q) = 0 THEN NotCalled ELSE Returned(q[Len(q)])
    /\ UNCHANGED <<labelVars, classes_table, subjects, now, riskVars, modelVars,
                   dbVars>>

\* The teacher saves records of student 1, one save after the other, while
\* time passes and the student opens the dashboard.
NextDashboard ==
    \/ /\ db_pc[1] = "idle"
       /\ \E p \in Pairs : \E f \in FieldValues : AddRecordCall(1, p[1], p[2], f)
    \/ AddRecordSelect(1)
    \/ AddRecordWrite(1)
    \/ Tick
    \/ StudentDashboard(1)

SpecDashboard == InitDashboard /\ [][NextDashboard]_vars

----------------------------------------------------------------------------
(* The teacher's save (app.py 527-549) and the at-risk list.               *)

\* The metric and derived columns the save passes to add_record, from what
\* predict_grade returned for the metric vector x.
SavedFields(x, predicted_grade, pm) ==
    LET risk == calculate_risk(x, Dict(pm))
    IN  [metrics |-> x, predicted_grade |-> predicted_grade,
         risk_score |-> risk.risk, risk_level |-> risk.level,
         recommendation |-> generate_recommendation(x)]

\* app.py 534-549, after predict_grade has returned to thread t:
\* calculate_risk, generate_recommendation, and the call of add_record.
SaveRecord(t, c, sid, subj) ==
    /\ proc_up /\ pc[t] = "idle" /\ ret[t].status = "ok"
    /\ AddRecordCall(c, sid, subj,
                     SavedFields(ret[t].x, ret[t].grade, ret[t].prob_map))

\* 384-396: SELECT DISTINCT sr.*, ... FROM student_records sr
\* JOIN students st ON sr.student_id = st.id
\* JOIN subjects s ON sr.subject_id = s.id
\* WHERE st.class_id = ? AND sr.risk_score >= 0.7
get_at_risk_students(class_id) ==
    {r \in student_records :
        /\ \E st \in students : st.id = r.student_id /\ st.class_id = class_id
        /\ \E s \in subjects : s.id = r.subject_id
        /\ r.fields.risk_score >= 700}

\* The server starts on a database in use, with or without an artifact.
InitSave ==
    /\ RiskIdle
    /\ proc_up = TRUE
    /\ artifact \in {Absent, File(TrainedModel), File(ThreeClassModel)}
    /\ ModelMemoryFresh
    /\ started_with_artifact = Exists
    /\ path_ok = TRUE
    /\ SchoolReady

\* One teacher's page script saves records, one save after the other; the
\* server is stopped and started again, the artifact removed in between,
\* and subjects are deleted.
NextSave ==
    \/ /\ db_pc[1] = "idle"
       /\ \E x \in ProbeVectors : Call(1, x)
    \/ L55(1) \/ L57(1) \/ L58(1) \/ L59(1)
    \/ L61(1) \/ L64(1) \/ L64w(1) \/ L65(1) \/ L66(1)
    \/ L113(1) \/ L115(1)
    \/ \E st \in students : \E s \in subjects :
          /\ <<st.id, s.id>> \in Pairs
          /\ SaveRecord(1, 1, st.id, s.id)
    \/ AddRecordSelect(1)
    \/ AddRecordWrite(1)
    \/ /\ db_pc[1] = "idle"
       /\ Stop
    \/ Cleanup
    \/ Start
    \/ /\ pc[1] = "idle"
       /\ \E s \in subjects : DeleteSubject(1, s.id)

SpecSave == InitSave /\ [][NextSave]_vars

----------------------------------------------------------------------------
(* Generating one sample's label.                                          *)

InitLabels ==
    /\ RiskIdle
    /\ ModelIdle
    /\ DbIdle
    /\ SchoolIdle
    /\ raw_score \in RawScores
    /\ sample_score = NotCalled
    /\ labels = NotCalled

\* 38-39: score = np.clip(score + noise, 0, 100)
ClipScore ==
    /\ sample_score = NotCalled
    /\ sample_score' = Returned(Clip(raw_score, 0, 100))
    /\ UNCHANGED <<riskVars, modelVars, dbVars, schoolVars, raw_score, labels>>

\* 41-45: the labels array is filled.
LabelSample ==
    /\ sample_score # NotCalled /\ labels = NotCalled
    /\ labels' = Returned(AssignLabels(sample_score.value))
    /\ UNCHANGED <<riskVars, modelVars, dbVars, schoolVars, raw_score,
                   sample_score>>

NextLabels == ClipScore \/ LabelSample

SpecLabels == InitLabels /\ [][NextLabels]_vars

----------------------------------------------------------------------------
(* calculate_risk called again with one metric raised.                     *)

\* The values a metric is drawn from and raised to: both sides of the
\* threshold of its rule in calculate_risk, and for marks and study_hours a
\* value further up.
ValuesOf ==
    [attendance |-> AttendanceValues, marks |-> MarksValues \ {69},
     mst_marks |-> MstValues, study_hours |-> StudyHoursValues \ {9},
     assignments |-> AssignmentsValues \ {69, 70},
     extracurriculars |-> ExtracurricularsValues,
     projects |-> CountValues, certifications |-> CountValues,
     internships |-> CountValues]

MonotoneVectors ==
    {m \in MetricVectors :
        \/ \A f \in DOMAIN m : m[f] \in ValuesOf[f]
        \/ m \in {Scenario1, Scenario2, Scenario3}}

\* The probability maps the repeated calls are made with: None, {}, two
\* classifier outputs, and a map whose term exceeds 1.
MonotoneMaps ==
    {NoMap, Dict(EmptyMap), Dict([l \in {"C", "D"} |-> 1000]),
     Dict([l \in Labels |-> IF l = "A" THEN 1000 ELSE 0]),
     Dict([l \in Labels |-> IF l = "C" THEN 600 ELSE IF l = "D" THEN 400 ELSE 0])}

InitMonotone ==
    /\ metrics \in MonotoneVectors
    /\ prob_map \in MonotoneMaps
    /\ risk_result = NotCalled
    /\ recommendation = NotCalled
    /\ ModelIdle
    /\ DbIdle
    /\ MoreIdle

\* calculate_risk is called with the same prob_map and the vector of the
\* previous call with one metric raised.
CalculateRiskRaised ==
    /\ risk_result # NotCalled
    /\ \E f \in DOMAIN metrics : \E x \in ValuesOf[f] :
          /\ x > metrics[f]
          /\ metrics' = [metrics EXCEPT ![f] = x]
    /\ risk_result' = Returned(calculate_risk(metrics', prob_map))
    /\ UNCHANGED <<prob_map, recommendation, modelVars, dbVars, moreVars>>

NextMonotone == CalculateRisk \/ CalculateRiskRaised

SpecMonotone == InitMonotone /\ [][NextMonotone]_vars

----------------------------------------------------------------------------
(* Properties of calculate_risk                                            *)

\* The conditions of the risk table of the specification, written out.
AttendanceAtRisk == metrics.attendance < 75
MarksAtRisk == metrics.marks < 60
MstAtRisk == metrics.mst_marks < 16
StudyHoursAtRisk == metrics.study_hours < 8
AssignmentsAtRisk == metrics.assignments < 60
ExtracurricularsAtRisk == metrics.extracurriculars < 2
NoProjects == metrics.projects = 0
NoCertifications == metrics.certifications = 0
NoInternships == metrics.internships = 0

AllRiskRulesFire ==
    /\ AttendanceAtRisk /\ MarksAtRisk /\ MstAtRisk /\ StudyHoursAtRisk
    /\ AssignmentsAtRisk /\ ExtracurricularsAtRisk
    /\ NoProjects /\ NoCertifications /\ NoInternships

NoRiskRuleFires ==
    ~(\/ AttendanceAtRisk \/ MarksAtRisk \/ MstAtRisk \/ StudyHoursAtRisk
      \/ AssignmentsAtRisk \/ ExtracurricularsAtRisk
      \/ NoProjects \/ NoCertifications \/ NoInternships)

\* P(D)*1.0 + P(C)*0.5 of the map passed, 0 when none (or an empty one) was.
GivenProbabilityTerm ==
    IF prob_map.present /\ DOMAIN prob_map.dict # {}
    THEN (IF "D" \in DOMAIN prob_map.dict THEN prob_map.dict["D"] ELSE 0)
         + (IF "C" \in DOMAIN prob_map.dict THEN prob_map.dict["C"] \div 2 ELSE 0)
    ELSE 0

\* The sum of the table's contributions for the metric vector.
RuleContributions ==
      (IF AttendanceAtRisk THEN 200 ELSE 0)
    + (IF MarksAtRisk THEN 250 ELSE 0)
    + (IF MstAtRisk THEN 200 ELSE 0)
    + (IF StudyHoursAtRisk THEN 100 ELSE 0)
    + (IF AssignmentsAtRisk THEN 150 ELSE 0)
    + (IF ExtracurricularsAtRisk THEN 50 ELSE 0)
    + (IF NoProjects THEN 100 ELSE 0)
    + (IF NoCertifications THEN 80 ELSE 0)
    + (IF NoInternships THEN 70 ELSE 0)

\* C1: whatever the metric vector and the probability map (present, empty
\* or absent), the risk score calculate_risk returns lies in [0, 1].
C1_RiskScoreInUnitInterval ==
    risk_result.called =>
        (risk_result.value.risk >= 0 /\ risk_result.value.risk <= 1000)

\* C1 witness: all nine rules fire together with a probability contribution
\* (the unclamped sum exceeds 1) and calculate_risk has returned.
C1_Witness ==
    /\ risk_result.called
    /\ AllRiskRulesFire
    /\ GivenProbabilityTerm > 0
    /\ RuleContributions + GivenProbabilityTerm > 1000

\* C2: the level returned is determined by the score returned: Low iff
\* score < 0.4, Medium iff 0.4 <= score < 0.7, High iff score >= 0.7; so
\* 0.39 is Low, 0.40 and 0.69 are Medium, 0.70 is High.
C2_LevelFollowsScore ==
    risk_result.called =>
        LET score == risk_result.value.risk
            level == risk_result.value.level
        IN  /\ level \in {"Low", "Medium", "High"}
            /\ (level = "Low") <=> (score < 400)
            /\ (level = "Medium") <=> (score >= 400 /\ score < 700)
            /\ (level = "High") <=> (score >= 700)
            /\ (score = 390) => (level = "Low")
            /\ (score = 400) => (level = "Medium")
            /\ (score = 690) => (level = "Medium")
            /\ (score = 700) => (level = "High")

\* C2 witness: a call that returned the score 0.40 exactly, from rule
\* contributions alone, with level Medium.
C2_Witness ==
    /\ risk_result.called
    /\ risk_result.value.risk = 400
    /\ risk_result.value.level = "Medium"
    /\ GivenProbabilityTerm = 0

\* C3: the score is the clamp to [0, 1] of the probability term plus the
\* nine table contributions; nothing else contributes.
C3_ScoreIsClampedSum ==
    risk_result.called =>
        LET total == GivenProbabilityTerm + RuleContributions
        IN  risk_result.value.risk =
                (IF total < 0 THEN 0 ELSE IF total > 1000 THEN 1000 ELSE total)

\* C3 witness: a call with a probability contribution and the marks rule and
\* some but not all other rules firing, whose sum is not clamped.
C3_Witness ==
    /\ risk_result.called
    /\ GivenProbabilityTerm > 0
    /\ MarksAtRisk /\ NoInternships /\ ~AttendanceAtRisk
    /\ GivenProbabilityTerm + RuleContributions < 1000

\* C4: the tips list is never empty: exactly the one positive tip when no
\* rule fires, and no positive tip when some rule fires.
C4_TipsNeverEmpty ==
    risk_result.called =>
        LET tips == risk_result.value.tips
        IN  /\ Len(tips) >= 1
            /\ NoRiskRuleFires => tips = <<PositiveTip>>
            /\ ~NoRiskRuleFires => \A i \in 1..Len(tips) : tips[i] # PositiveTip

\* C4 witness: a call on a vector on which no rule fires, with a non-empty
\* probability map.
C4_Witness ==
    /\ risk_result.called
    /\ NoRiskRuleFires
    /\ GivenProbabilityTerm > 0
    /\ risk_result.value.tips = <<PositiveTip>>

\* The tips the table emits for the metric vector, in table order.
ExpectedTips ==
       (IF AttendanceAtRisk
        THEN <<"Improve attendance to at least 85% for better outcomes.">> ELSE <<>>)
    \o (IF MarksAtRisk
        THEN <<"Focus on core subjects to raise marks above 70%.">> ELSE <<>>)
    \o (IF MstAtRisk
        THEN <<"MST performance is low. Schedule revision sessions weekly.">> ELSE <<>>)
    \o (IF StudyHoursAtRisk
        THEN <<"Increase study hours to at least 12-15 hours per week.">> ELSE <<>>)
    \o (IF AssignmentsAtRisk
        THEN <<"Complete and revise assignments to boost score.">> ELSE <<>>)
    \o (IF ExtracurricularsAtRisk
        THEN <<"Engage in extracurricular activities for balance.">> ELSE <<>>)
    \o (IF NoProjects
        THEN <<"Complete project work to enhance practical skills.">> ELSE <<>>)
    \o (IF NoCertifications
        THEN <<"Earn certifications to boost your profile.">> ELSE <<>>)
    \o (IF NoInternships
        THEN <<"Consider internship opportunities for industry experience.">> ELSE <<>>)

\* C5: when some rule fires, the tips are exactly one tip per fired rule, in
\* table order, without duplicates or truncation (nine tips when all nine
\* fire); the probability map adds no tip.
C5_OneTipPerFiredRule ==
    (risk_result.called /\ ~NoRiskRuleFires) =>
        LET tips == risk_result.value.tips
        IN  /\ tips = ExpectedTips
            /\ \A i, j \in 1..Len(tips) : tips[i] = tips[j] => i = j
            /\ AllRiskRulesFire => Len(tips) = 9

\* C5 witness: all nine rules fire, a probability map is given, and nine
\* tips came back.
C5_Witness ==
    /\ risk_result.called
    /\ AllRiskRulesFire
    /\ prob_map.present
    /\ Len(risk_result.value.tips) = 9

----------------------------------------------------------------------------
(* Properties of generate_recommendation and of the scenarios              *)

\* The directives the recommendation rules of the specification (section
\* 4.4) trigger for the metric vector, in declaration order.
ExpectedDirectives ==
       (IF metrics.attendance < 75 THEN <<"Improve attendance">> ELSE <<>>)
    \o (IF metrics.marks < 70 THEN <<"Focus on marks">> ELSE <<>>)
    \o (IF metrics.mst_marks < 16 THEN <<"Boost MST prep">> ELSE <<>>)
    \o (IF metrics.study_hours < 10 THEN <<"Increase study time">> ELSE <<>>)
    \o (IF metrics.assignments < 70 THEN <<"Complete assignments">> ELSE <<>>)
    \o (IF metrics.extracurriculars < 2 THEN <<"Join activities">> ELSE <<>>)
    \o (IF metrics.projects = 0 THEN <<"Work on projects">> ELSE <<>>)
    \o (IF metrics.certifications = 0 THEN <<"Earn certifications">> ELSE <<>>)
    \o (IF metrics.internships = 0 THEN <<"Pursue internships">> ELSE <<>>)

\* C6: generate_recommendation returns the affirmation iff none of its nine
\* rules triggers; otherwise the triggered directives in declaration order
\* joined by " | ", with one separator fewer than directives.
C6_RecommendationIsJoinedDirectives ==
    recommendation.called =>
        LET rec == recommendation.value
            n   == Len(ExpectedDirectives)
        IN  /\ (rec = <<"Maintain current performance - you're excelling!">>)
                    <=> (n = 0)
            /\ n > 0 =>
                /\ Len(rec) = 2 * n - 1
                /\ \A i \in 1..n : rec[2 * i - 1] = ExpectedDirectives[i]
                /\ \A i \in 1..(n - 1) : rec[2 * i] = " | "
                /\ Cardinality({i \in 1..Len(rec) : rec[i] = " | "}) = n - 1

\* C6 witness: the call returned three directives with two separators (the
\* rules of marks, study hours and assignments, on the boundary vector).
C6_Witness ==
    /\ recommendation.called
    /\ metrics = Scenario3
    /\ recommendation.value =
          <<"Focus on marks", " | ", "Increase study time", " | ",
            "Complete assignments">>

\* C7: on a vector on which all nine risk rules fire, with any probability
\* map or none, calculate_risk returns the score 1.0 and the level High, and
\* generate_recommendation returns all nine directives joined by " | ".
C7_AllRulesFire ==
    AllRiskRulesFire =>
        /\ risk_result.called =>
              (risk_result.value.risk = 1000 /\ risk_result.value.level = "High")
        /\ recommendation.called =>
              recommendation.value =
                <<"Improve attendance", " | ", "Focus on marks", " | ",
                  "Boost MST prep", " | ", "Increase study time", " | ",
                  "Complete assignments", " | ", "Join activities", " | ",
                  "Work on projects", " | ", "Earn certifications", " | ",
                  "Pursue internships">>

\* C7 witness: both functions have been called on scenario 2 without a
\* probability map.
C7_Witness ==
    /\ metrics = Scenario2
    /\ ~prob_map.present
    /\ risk_result.called
    /\ recommendation.called

\* C8: on the boundary vector (scenario 3) no risk rule fires: the score is
\* the clamped probability term alone (0 without a map) and the tips are the
\* single positive tip.
C8_BoundaryVectorFiresNoRiskRule ==
    (metrics = Scenario3 /\ risk_result.called) =>
        /\ risk_result.value.risk =
              (IF GivenProbabilityTerm > 1000 THEN 1000 ELSE GivenProbabilityTerm)
        /\ ~prob_map.present => risk_result.value.risk = 0
        /\ risk_result.value.tips =
              <<"Great job! Maintain consistency to keep your performance high.">>

\* C8 witness: calculate_risk has returned on scenario 3 with a classifier
\* distribution that contributes P(D) + 0.5 * P(C) = 0.4 + 0.3.
C8_Witness ==
    /\ metrics = Scenario3
    /\ risk_result.called
    /\ prob_map.present
    /\ prob_map.dict \in ClassifierMaps
    /\ prob_map.dict["D"] = 400 /\ prob_map.dict["C"] = 600
    /\ risk_result.value.risk = 700

\* C9: on the boundary vector (scenario 3) the risk engine's marks rule does
\* not fire while the recommendation's marks rule does: the recommendation
\* holds the marks directive and is not the affirmation.
C9_RuleSetsIndependent ==
    metrics = Scenario3 =>
        /\ risk_result.called =>
              \A i \in 1..Len(risk_result.value.tips) :
                  risk_result.value.tips[i]
                      # "Focus on core subjects to raise marks above 70%."
        /\ recommendation.called =>
              /\ \E i \in 1..Len(recommendation.value) :
                    recommendation.value[i] = "Focus on marks"
              /\ recommendation.value
                    # <<"Maintain current performance - you're excelling!">>

\* C9 witness: both functions have been called on scenario 3.
C9_Witness ==
    /\ metrics = Scenario3
    /\ risk_result.called
    /\ recommendation.called
    /\ risk_result.value.risk = 0

\* C10 as claimed: on scenario 1 the level is Low or Medium, never High,
\* whatever distribution the classifier returned.
C10_NeverHigh ==
    (/\ metrics = Scenario1
     /\ risk_result.called
     /\ prob_map.present
     /\ prob_map.dict \in ClassifierMaps)
        => risk_result.value.level \in {"Low", "Medium"}

\* C10 as amended: on scenario 1 no risk rule fires, the score is the clamped
\* probability term alone, and the level is Low or Medium exactly when
\* P(D) + 0.5 * P(C) < 0.7 (High when the classifier's map reaches 0.7).
C10_HighOnlyFromProbabilityTerm ==
    (metrics = Scenario1 /\ risk_result.called) =>
        /\ risk_result.value.risk =
              (IF GivenProbabilityTerm > 1000 THEN 1000 ELSE GivenProbabilityTerm)
        /\ (risk_result.value.level \in {"Low", "Medium"})
              <=> (GivenProbabilityTerm < 700)
        /\ (risk_result.value.level = "High") <=> (GivenProbabilityTerm >= 700)

\* C10 witness: calculate_risk has returned Medium on scenario 1 for a
\* classifier distribution with P(C) = 1.
C10_Witness ==
    /\ metrics = Scenario1
    /\ risk_result.called
    /\ prob_map.present
    /\ prob_map.dict \in ClassifierMaps
    /\ prob_map.dict["C"] = 1000
    /\ risk_result.value.level = "Medium"

----------------------------------------------------------------------------
(* Properties of the classifier singleton                                  *)

\* The lines of _ensure_model that load, train or write.
InitialisingLines == {"L57", "L58", "L59", "L61", "L64", "L64w", "L65", "L66"}

\* C11: once an _ensure_model call has completed successfully, a call that
\* begins later goes from the guard straight to the prediction: it does not
\* load, train or write the artifact; and from then on _MODEL and _CLASSES
\* keep their values until the process ends.
C11_EnsureModelIdempotent ==
    [][ proc_up' =>
          /\ \A t \in Threads :
                (late[t] /\ pc'[t] # pc[t]) =>
                    /\ pc'[t] \notin InitialisingLines
                    /\ UNCHANGED <<artifact, n_train, n_load, n_write>>
          /\ init_done => UNCHANGED <<MODEL, CLASSES>>
      ]_vars

\* C11 witness: a call that began after a completed initialisation has
\* passed the guard and the assertion and is about to predict.
C11_Witness ==
    \E t \in Threads : late[t] /\ pc[t] = "L115" /\ MODEL = TrainedModel

\* C12: the presence of the artifact decides the branch.  In a lifetime that
\* began with the artifact present nothing is trained or written; in one that
\* began without it, a completed initialisation implies a completed write;
\* either way the artifact exists after a successful initialisation (so the
\* next lifetime begins with it, unless the operator removes it).
C12_ArtifactDecidesBranch ==
    proc_up =>
        /\ started_with_artifact =>
              /\ n_train = 0 /\ n_write = 0
              /\ \A t \in Threads : pc[t] \notin {"L61", "L64", "L64w", "L65", "L66"}
        /\ (~started_with_artifact /\ init_done) => (n_train >= 1 /\ n_write >= 1)
        /\ \A t \in Threads : pc[t] \in {"L58", "L59"} => Exists
        /\ init_done => Exists

\* C12 witness: a lifetime that began without the artifact has trained,
\* written the artifact and completed its initialisation.
C12_Witness ==
    /\ proc_up /\ ~started_with_artifact /\ init_done
    /\ artifact = File(TrainedModel)
    /\ n_train = 1 /\ n_write = 1 /\ n_load = 0

\* C13 as claimed: in one process lifetime the model is loaded or trained at
\* most once and the artifact is written at most once.
C13_InitialisedAtMostOnce ==
    proc_up => (n_load + n_train <= 1 /\ n_write <= 1)

\* C14 as claimed: every result of predict_grade has a probability map whose
\* keys are exactly A, B, C, D and a grade among them, whatever artifact was
\* at MODEL_PATH.
C14_FourLabels ==
    \A t \in Threads :
        ret[t].status = "ok" =>
            /\ DOMAIN ret[t].prob_map = {"A", "B", "C", "D"}
            /\ ret[t].grade \in {"A", "B", "C", "D"}

\* C15: two predict_grade calls with the same metric vector in one process
\* lifetime return the same grade and the same probability map, whatever
\* other predict_grade calls ran in between or concurrently.
C15_PredictGradeRepeatable ==
    \A t \in Threads :
        ret[t].status = "ok" => ret[t] = first_result[ret[t].x]

\* C15 witness: two threads hold results for the same vector, the other
\* vector has been predicted too, and calculate_risk and
\* generate_recommendation have been called.
C15_Witness ==
    /\ \E t1, t2 \in Threads :
          /\ t1 # t2
          /\ ret[t1].status = "ok" /\ ret[t2].status = "ok"
          /\ ret[t1].x = ret[t2].x
    /\ \A x \in ProbeVectors : first_result[x].status = "ok"
    /\ risk_result # NotCalled /\ recommendation # NotCalled

\* C16 as claimed: once a complete artifact exists the running program never
\* opens it for writing again, and only the cleanup script removes it.
C16_ArtifactWrittenOnce ==
    [][ /\ \A t \in Threads :
              (pc[t] = "L64" /\ pc'[t] = "L64w") => artifact.state # "complete"
        /\ (Exists /\ ~Exists') => ~proc_up
      ]_vars

----------------------------------------------------------------------------
(* Properties of the database functions                                    *)

\* C17: as long as add_record calls do not overlap, every (student, subject)
\* pair has at most one row; once a save for the pair has completed, its row
\* holds the fields of the save that completed last and still has the id of
\* the first save; and every add_record returned that id.
C17_SequentialUpsert ==
    ~overlapped =>
        /\ \A p \in Pairs :
              LET rows == {r \in student_records :
                              r.student_id = p[1] /\ r.subject_id = p[2]}
              IN  /\ Cardinality(rows) <= 1
                  /\ last_save[p] # None =>
                        \E r \in rows : /\ r.fields = last_save[p].fields
                                        /\ r.id = first_id[p]
        /\ \A c \in Callers :
              db_ret[c].kind = "value" => db_ret[c].value = first_id[db_ret[c].pair]

\* C17 witness: without any overlap, a pair has been saved again with other
\* fields, the other pair has a row too, and the re-save returned the id of
\* the first save.
C17_Witness ==
    /\ ~overlapped
    /\ Cardinality(student_records) = 2
    /\ \E p \in Pairs : \E c \in Callers :
          /\ last_save[p] = [fields |-> "fields2", again |-> TRUE]
          /\ \E r \in student_records :
                r.student_id = p[1] /\ r.subject_id = p[2] /\ r.fields = "fields2"
          /\ db_ret[c].kind = "value" /\ db_ret[c].pair = p
          /\ db_ret[c].value = first_id[p]

\* C18 as claimed: in every state, also when add_record calls for one pair
\* interleave, the pair has at most one row.
C18_OneRowPerPair ==
    \A p \in Pairs :
        Cardinality({r \in student_records :
                        r.student_id = p[1] /\ r.subject_id = p[2]}) <= 1

\* C19: after every step no two students of one class share a roll number;
\* an add_student for a (class, roll number) that a student has returns -1,
\* an update_student that gives a student the roll number of a classmate
\* returns False, and both leave the students table as it was.
C19_RollNumbersUnique ==
    [][ /\ \A r1, r2 \in students' :
              (r1.class_id = r2.class_id /\ r1.roll_number = r2.roll_number)
                  => r1.id = r2.id
        /\ \A c \in Callers :
              (/\ db_pc[c] = "L250" /\ db_pc'[c] = "idle"
               /\ \E r \in students : /\ r.class_id = db_frame[c].class_id
                                      /\ r.roll_number = db_frame[c].roll_number)
                  => (db_ret'[c].value = -1 /\ students' = students)
        /\ \A c \in Callers :
              (/\ db_pc[c] = "L280" /\ db_pc'[c] = "idle"
               /\ \E r, q \in students :
                     /\ r.id = db_frame[c].student_id /\ q.id # r.id
                     /\ q.class_id = r.class_id
                     /\ q.roll_number = db_frame[c].roll_number)
                  => (db_ret'[c].value = FALSE /\ students' = students)
      ]_vars

\* C19 witness: one add_student has returned -1 and one update_student of an
\* existing student has returned False, with two students in one class and
\* the same roll number in use in the other class.
C19_Witness ==
    /\ \E c1, c2 \in Callers :
          /\ db_ret[c1].kind = "value" /\ db_ret[c1].op = "add_student"
          /\ db_ret[c1].value = -1
          /\ db_ret[c2].kind = "value" /\ db_ret[c2].op = "update_student"
          /\ db_ret[c2].caught = "IntegrityError"
    /\ \E r1, r2, r3 \in students :
          /\ r1.class_id = r2.class_id /\ r1.roll_number # r2.roll_number
          /\ r3.class_id # r1.class_id /\ r3.roll_number = r1.roll_number

\* C20: after every step no two teachers share an email; a register_teacher
\* call that returns while a teacher has its email returns False with a
\* message and leaves the teachers table as it was, also when the teacher was
\* added after the call's get_teacher_by_email check.
C20_EmailsUnique ==
    [][ /\ \A r1, r2 \in teachers' : r1.email = r2.email => r1.id = r2.id
        /\ \A c \in Callers :
              (/\ db_pc[c] # "idle" /\ db_pc'[c] = "idle"
               /\ \E r \in teachers : r.email = db_frame[c].email)
                  => /\ db_ret'[c].value[1] = FALSE
                     /\ db_ret'[c].value[2] \in
                           {"Email already registered.",
                            "Failed to register. Email may be taken."}
                     /\ teachers' = teachers
      ]_vars

\* C20 witness: two registrations with one email raced past the check; one
\* succeeded, the other got IntegrityError from the insert and returned False.
C20_Witness ==
    \E c, d \in Callers :
        /\ c # d
        /\ db_ret[c].kind = "value" /\ db_ret[c].caught = "IntegrityError"
        /\ db_ret[c].value[1] = FALSE
        /\ db_ret[d].kind = "value" /\ db_ret[d].value[1] = TRUE
        /\ Cardinality({r \in teachers : r.email = "a@school.org"}) = 1
----------------------------------------------------------------------------
(* Properties of the synthetic dataset                                     *)

\* C22: every sample gets exactly one label from A, B, C, D, fixed by its
\* clipped score: A iff score >= 85, B iff 70 <= score < 85, C iff
\* 55 <= score < 70, D iff score < 55; the clipped score lies in [0, 100].
C22_OneLabelPerSample ==
    labels # NotCalled =>
        LET s == sample_score.value
            l == labels.value
        IN  /\ s >= 0 /\ s <= 100
            /\ l.kind = "str"
            /\ l.value \in {"A", "B", "C", "D"}
            /\ (l.value = "A") <=> (s >= 85)
            /\ (l.value = "B") <=> (s >= 70 /\ s < 85)
            /\ (l.value = "C") <=> (s >= 55 /\ s < 70)
            /\ (l.value = "D") <=> (s < 55)

\* C22 witness: a sample whose noisy score was above 100 is clipped to 100
\* and labelled A.
C22_Witness ==
    /\ raw_score > 100
    /\ sample_score = Returned(100)
    /\ labels = Returned([kind |-> "str", value |-> "A"])
----------------------------------------------------------------------------
(* Relations between the two rule sets                                     *)

\* The risk tip and the recommendation directive of each of the nine metrics.
TipAndDirective == {
    <<"Improve attendance to at least 85% for better outcomes.", "Improve attendance">>,
    <<"Focus on core subjects to raise marks above 70%.", "Focus on marks">>,
    <<"MST performance is low. Schedule revision sessions weekly.", "Boost MST prep">>,
    <<"Increase study hours to at least 12-15 hours per week.", "Increase study time">>,
    <<"Complete and revise assignments to boost score.", "Complete assignments">>,
    <<"Engage in extracurricular activities for balance.", "Join activities">>,
    <<"Complete project work to enhance practical skills.", "Work on projects">>,
    <<"Earn certifications to boost your profile.", "Earn certifications">>,
    <<"Consider internship opportunities for industry experience.", "Pursue internships">>}

\* C26: for every metric vector, when calculate_risk gives the tip of a
\* metric, generate_recommendation gives the directive of that metric; and
\* when generate_recommendation returns the affirmation, calculate_risk
\* returns the positive tip alone and a score that is the (clamped)
\* probability term, the term itself when the map is absent, empty or a
\* distribution over the labels.
C26_RecommendationDominatesRisk ==
    (risk_result # NotCalled /\ recommendation # NotCalled) =>
        LET tips == {risk_result.value.tips[i] : i \in 1..Len(risk_result.value.tips)}
            recs == {recommendation.value[i] : i \in 1..Len(recommendation.value)}
            term == GivenProbabilityTerm
        IN  /\ \A td \in TipAndDirective : td[1] \in tips => td[2] \in recs
            /\ recommendation.value = <<"Maintain current performance - you're excelling!">>
                  => /\ risk_result.value.tips =
                           <<"Great job! Maintain consistency to keep your performance high.">>
                     /\ risk_result.value.risk =
                           (IF term > 1000 THEN 1000 ELSE IF term < 0 THEN 0 ELSE term)
                     /\ (term >= 0 /\ term <= 1000) => risk_result.value.risk = term

\* C26 witness: a vector for which generate_recommendation returns the
\* affirmation, with a positive probability term.
C26_Witness ==
    /\ risk_result # NotCalled /\ recommendation # NotCalled
    /\ recommendation.value = <<"Maintain current performance - you're excelling!">>
    /\ risk_result.value.risk = 600
    /\ metrics # [attendance |-> 90, marks |-> 85, mst_marks |-> 30, study_hours |-> 15,
                  assignments |-> 90, extracurriculars |-> 5, projects |-> 2,
                  certifications |-> 1, internships |-> 1]
\* C27: when calculate_risk is called again with the same probability map
\* and one metric raised, the score does not increase, the level does not
\* move towards High, and no metric tip appears that was not given before.
C27_RiskMonotone ==
    [][ (/\ risk_result # NotCalled /\ risk_result' # NotCalled
         /\ prob_map' = prob_map
         /\ \E f \in DOMAIN metrics :
               /\ metrics'[f] > metrics[f]
               /\ \A g \in DOMAIN metrics \ {f} : metrics'[g] = metrics[g])
        => LET rank == [l \in {"Low", "Medium", "High"} |->
                           IF l = "Low" THEN 0 ELSE IF l = "Medium" THEN 1 ELSE 2]
               before == risk_result.value
               after == risk_result'.value
               tipsBefore == {before.tips[i] : i \in 1..Len(before.tips)}
               tipsAfter == {after.tips[i] : i \in 1..Len(after.tips)}
           IN  /\ after.risk <= before.risk
               /\ rank[after.level] <= rank[before.level]
               /\ \A td \in TipAndDirective :
                     td[1] \in tipsAfter => td[1] \in tipsBefore
      ]_vars

\* C27 witness: starting from scenario 2 (every rule fires, High) every
\* metric but marks has been raised over its threshold, one call at a time;
\* the marks rule alone is left and the level is Low.
C27_Witness ==
    /\ risk_result # NotCalled
    /\ metrics = [attendance |-> 75, marks |-> 40, mst_marks |-> 16, study_hours |-> 8,
                  assignments |-> 60, extracurriculars |-> 2, projects |-> 1,
                  certifications |-> 1, internships |-> 1]
    /\ risk_result.value.risk = 250
    /\ risk_result.value.level = "Low"
    /\ risk_result.value.tips = <<"Focus on core subjects to raise marks above 70%.">>
----------------------------------------------------------------------------
(* The returned grade and the returned probability map.                    *)

\* C25: the grade a predict_grade call returns is a label of the returned
\* probability map whose probability is at least that of every other label
\* of the map, and every label that comes before it in the classifier's
\* class order has a strictly smaller probability (on a tie the first label
\* in class order is returned).
C25_GradeIsArgMax ==
    \A t \in Threads :
        ret[t].status = "ok" =>
            LET pm == ret[t].prob_map
                grade == ret[t].grade
                order == CLASSES.items
            IN  /\ grade \in DOMAIN pm
                /\ \A l \in DOMAIN pm : pm[l] <= pm[grade]
                /\ \A i, j \in 1..Len(order) :
                      (order[j] = grade /\ i < j) => pm[order[i]] < pm[grade]

\* C25 witness: a call returned from a classifier whose vote is tied between
\* C and D at the top; C, first in class order, was returned.
C25_Witness ==
    /\ ret[1].status = "ok"
    /\ ret[1].x = Scenario2
    /\ ret[1].prob_map = [l \in {"A", "B", "C", "D"} |->
                             IF l \in {"C", "D"} THEN 500 ELSE 0]
    /\ ret[1].grade = "C"
----------------------------------------------------------------------------
(* Failures of the artifact path.                                          *)

\* C23 as claimed: a predict_grade call whose joblib.load or joblib.dump
\* fails on MODEL_PATH ends with the exception and no grade, and the
\* initialisation is not retried: a training is only ever run in a process
\* that has not trained before, also when the calls follow one another.
C23_FailureSurfacedNotRetried ==
    [][ /\ \A t \in Threads :
              (pc[t] \in {"L58", "L64"} /\ ~path_ok /\ pc'[t] # pc[t])
                  => ret'[t] = Raised("OSError")
        /\ (n_train' > n_train) => n_train = 0
      ]_vars
\* C24 as claimed: no step leads to a state where _MODEL is set and _CLASSES
\* is not, no predict_grade call ends in the AssertionError of line 113, and
\* no caller runs joblib.load while another caller is writing the artifact.
C24_NoPartialClassifier ==
    [][ /\ MODEL' # None => CLASSES' # None
        /\ \A t \in Threads : ret'[t] # Raised("AssertionError")
        /\ \A t \in Threads :
              (pc[t] = "L58" /\ pc'[t] # "L58") => writers = {}
      ]_vars
----------------------------------------------------------------------------
(* Referential integrity.                                                  *)

\* C29 as claimed: deletes cascade, so between the calls of a page script
\* every student_records row refers to a student and a subject that exist,
\* and every student and subject row to a class that exists.
C29_NoOrphanRows ==
    (\A c \in Callers : db_pc[c] = "idle") =>
        /\ \A r \in student_records :
              /\ \E st \in students : st.id = r.student_id
              /\ \E s \in subjects : s.id = r.subject_id
        /\ \A st \in students : \E cl \in classes_table : cl.id = st.class_id
        /\ \A s \in subjects : \E cl \in classes_table : cl.id = s.class_id
----------------------------------------------------------------------------
(* The student dashboard.                                                  *)

\* C30 as claimed: the record the dashboard shows as latest_record is, among
\* the records get_student_records returned, one with the greatest
\* created_at.
C30_LatestIsNewest ==
    latest_record # NotCalled =>
        \A i \in 1..Len(records.value) :
            records.value[i].created_at <= latest_record.value.created_at
----------------------------------------------------------------------------
(* Saved records.                                                          *)

C28_AtRiskIsHigh ==
    /\ \A r \in student_records : r.fields.risk_level = RiskLevel(r.fields.risk_score)
    /\ \A cl \in classes_table :
          get_at_risk_students(cl.id) =
              {r \in student_records :
                  /\ \E st \in students : st.id = r.student_id /\ st.class_id = cl.id
                  /\ r.fields.risk_level = "High"}

====
